---- MODULE Spec2Model ----
(***************************************************************************)
(* A model of the ai4infra operations toolkit: certificate manager,        *)
(* environment-file generator, service discovery, backup/restore and the   *)
(* install / backup / restore commands of the CLI.                         *)
(*                                                                         *)
(* All state is the file system and the Docker daemon.  Every subprocess   *)
(* the code runs may exit zero or non-zero; the model draws that outcome   *)
(* with \E ok \in BOOLEAN in the step that runs it.                        *)
(***************************************************************************)
EXTENDS Integers, Sequences, FiniteSets, TLC

(***************************************************************************)
(* Bounds of the model.                                                    *)
(***************************************************************************)
\* number of RSA keys "openssl genrsa" may produce in one behaviour: two
\* root CA keys and a key for each of two services
MaxKeyGen == 4

\* the services of the model: postgres (two-step TLS install, first of
\* CORE_ORDER) and bitwarden (an add-on with its own TLS directory)
Services == {"postgres", "bitwarden"}

\* the callers of create_service_certificate
Procs == {"p1", "p2"}

\* a file that does not exist
NoFile == 0

\* a certificate file that does not exist
NoCert == [subject |-> NoFile, issuer |-> NoFile]

VARIABLES
    \* ---- certificate manager: files under BASE_DIR/certs/ca and
    \*      BASE_DIR/<service>/certs
    caKey,       \* rootCA.key: id of the key in it, or NoFile
    caCert,      \* rootCA.pem: id of the key it was self-signed with, or NoFile
    svcKey,      \* private.key per service: key id or NoFile
    svcCsr,      \* request.csr per service: id of the key it was made from
    svcCert,     \* certificate.crt per service: [subject, issuer] or NoCert
    svcRootCA,   \* the service's copy of the root CA (rootCA.crt / ca.crt)
    svcDir,      \* per service: BASE_DIR/<service> exists
    keyGen,      \* number of keys generated so far (the next key is keyGen+1)
    call,        \* per caller: position in create_service_certificate
    lastResult   \* per service: what the most recent call returned
                 \* ("True", "False", or "none" before the first call)

VARIABLES
    \* ---- environment files
    envLayers,   \* per service: the four variable layers generate_env reads
    envFile,     \* per service: BASE_DIR/<service>/.env
    envResult    \* per service: what the last generate_env returned

VARIABLES
    \* ---- service discovery
    configDir,   \* the files of config/: parsed content per file name
    backupMethod, \* per service: backup.method of config/<service>.yml
    discStatus,  \* "none", "returned" or "raised": how discover_services ended
    discList     \* the list discover_services returned

VARIABLES
    \* ---- Docker and the service directories
    running,     \* per service: the container ai4infra-<service> is up
    composeFile, \* per service: BASE_DIR/<service>/docker-compose.yml exists
    overrideFile, \* BASE_DIR/postgres/docker-compose.override.yml exists
    overrideTemplate \* templates/postgres/docker-compose.override.yml exists

VARIABLES
    \* ---- backup and restore
    dataDir,        \* per service: the data directory and its files
    artifacts,      \* per service: the files of BASE_DIR/backups/<service>
    clock,          \* seconds the wall clock has advanced since the start
                    \* (it does not go backwards)
    nCreated,       \* number of artifacts written so far
    nCommands,      \* number of commands run so far
    backupPassword, \* BACKUP_PASSWORD is set
    tmp,            \* what the last backup_data or restore_data left in /tmp
    cmd,            \* the running, or the last, command of the CLI
    processed       \* the services whose loop iteration has begun

VARIABLES
    \* ---- health checks
    pgCheck,        \* the running, or the last, check_postgres call
    vaultCheck,     \* the running, or the last, check_vault call
    ctCheck,        \* the running, or the last, check_container call
    unseal,         \* the running, or the last, run of auto_unseal.py
    extract         \* a .env file, a section name and what
                    \* extract_env_vars returned for them

VARIABLES
    \* ---- commands on Vault and on the crontab
    vaultInit,      \* Vault, mock_usb/vault_keys.json and the last init_vault
    cron            \* the crontab, the schedules and the last setup_cron

certVars == <<caKey, caCert, svcKey, svcCsr, svcCert, svcRootCA, svcDir,
              keyGen, call, lastResult>>

envVars == <<envLayers, envFile, envResult>>

discVars == <<configDir, backupMethod, discStatus, discList>>

dockerVars == <<running, composeFile, overrideFile, overrideTemplate>>

backupVars == <<dataDir, artifacts, clock, nCreated, nCommands, backupPassword,
                tmp, cmd, processed>>

toolVars == <<pgCheck, vaultCheck, ctCheck, unseal, extract>>

cliVars == <<vaultInit, cron>>

vars == <<certVars, envVars, discVars, dockerVars, backupVars, toolVars,
          cliVars>>

\* what init_vault and setup_cron leave alone
notCli == <<certVars, envVars, discVars, dockerVars, backupVars, toolVars>>

\* what the certificate manager leaves alone
notCert == <<envVars, discVars, dockerVars, backupVars, toolVars, cliVars>>

\* what generate_env leaves alone, besides envLayers
notEnv == <<certVars, discVars, dockerVars, backupVars, toolVars, cliVars>>

\* what discover_services leaves alone, besides configDir
notDisc == <<certVars, envVars, dockerVars, backupVars, toolVars, cliVars>>

\* what the backup and restore commands leave alone, besides the .env file
notBackup ==
    <<certVars, discVars, composeFile, overrideFile, overrideTemplate, toolVars,
      cliVars>>

(***************************************************************************)
(* Certificate manager (scripts/ai4infra/utils/certs_manager.py)           *)
(***************************************************************************)
IdleCall == [pc |-> "idle", svc |-> "postgres", overwrite |-> FALSE]

\* openssl verify -CAfile rootCA.pem certificate.crt: the leaf's signature
\* checks against the public key in the root CA certificate
Verifies(cert, ca) ==
    /\ cert # NoCert
    /\ ca # NoFile
    /\ cert.issuer = ca

\* CA_CERT.exists() and CA_KEY.exists()
RootCAExists == caCert # NoFile /\ caKey # NoFile

\* the file-existence test that decides whether regeneration is skipped
SkipRegenerationNever(s, overwrite) == FALSE

SkipRegeneration(s, overwrite) ==
    /\ (svcKey[s] # NoFile \/ svcCert[s] # NoCert)
    /\ ~overwrite

\* no root CA, no service key or certificate, no call running
CertFilesInit ==
    /\ caKey = NoFile
    /\ caCert = NoFile
    /\ svcKey = [s \in Services |-> NoFile]
    /\ svcCsr = [s \in Services |-> NoFile]
    /\ svcCert = [s \in Services |-> NoCert]
    /\ svcRootCA = [s \in Services |-> NoFile]
    /\ keyGen = 0
    /\ call = [p \in Procs |-> IdleCall]
    /\ lastResult = [s \in Services |-> "none"]

\* a clean host: no service directory either
CertInit ==
    /\ CertFilesInit
    /\ svcDir = [s \in Services |-> FALSE]

\* the call of p moves to pc
Goto(p, pc) == call' = [call EXCEPT ![p].pc = pc]

\* create_service_certificate returns result
Return(p, result) ==
    /\ call' = [call EXCEPT ![p].pc = "idle"]
    /\ lastResult' = [lastResult EXCEPT ![call[p].svc] =
                                        IF result THEN "True" ELSE "False"]

\* entry of create_service_certificate(service, overwrite)
StartCall(p, s, overwrite) ==
    /\ call[p].pc = "idle"
    /\ call' = [call EXCEPT ![p] = [pc |-> "ca_check", svc |-> s,
                                    overwrite |-> overwrite]]
    /\ UNCHANGED <<caKey, caCert, svcKey, svcCsr, svcCert, svcRootCA, svcDir,
                   keyGen, lastResult>>

\* a direct call (one caller at a time)
BeginCall(p) ==
    /\ \A q \in Procs : call[q].pc = "idle"
    /\ \E s \in Services, overwrite \in BOOLEAN : StartCall(p, s, overwrite)

\* generate_root_ca_if_needed: keep an existing root CA, else create_root_ca
GenerateRootCAIfNeeded(p) ==
    /\ call[p].pc = "ca_check"
    /\ IF RootCAExists THEN Goto(p, "exists_check") ELSE Goto(p, "ca_recheck")
    /\ UNCHANGED <<caKey, caCert, svcKey, svcCsr, svcCert, svcRootCA, svcDir,
                   keyGen, lastResult>>

\* create_root_ca(overwrite=False): its own existence test
CreateRootCACheck(p) ==
    /\ call[p].pc = "ca_recheck"
    /\ IF RootCAExists THEN Goto(p, "exists_check") ELSE Goto(p, "ca_genrsa")
    /\ UNCHANGED <<caKey, caCert, svcKey, svcCsr, svcCert, svcRootCA, svcDir,
                   keyGen, lastResult>>

\* create_root_ca: mkdir -p and openssl genrsa -out rootCA.key 4096
CreateRootCAKey(p) ==
    /\ call[p].pc = "ca_genrsa"
    /\ \E ok \in BOOLEAN :
         IF ok /\ keyGen < MaxKeyGen
         THEN /\ keyGen' = keyGen + 1
              /\ caKey' = keyGen + 1
              /\ Goto(p, "ca_req")
              /\ UNCHANGED lastResult
         ELSE /\ Return(p, FALSE)
              /\ UNCHANGED <<caKey, keyGen>>
    /\ UNCHANGED <<caCert, svcKey, svcCsr, svcCert, svcRootCA, svcDir>>

\* create_root_ca: openssl req -x509 -new -key rootCA.key -out rootCA.pem
CreateRootCACert(p) ==
    /\ call[p].pc = "ca_req"
    /\ \E ok \in BOOLEAN :
         IF ok /\ caKey # NoFile
         THEN /\ caCert' = caKey
              /\ Goto(p, "exists_check")
              /\ UNCHANGED lastResult
         ELSE /\ Return(p, FALSE)
              /\ UNCHANGED caCert
    /\ UNCHANGED <<caKey, svcKey, svcCsr, svcCert, svcRootCA, svcDir, keyGen>>

\* create_service_certificate: key_path.exists() or cert_path.exists()
ExistsCheck(p) ==
    /\ call[p].pc = "exists_check"
    /\ IF SkipRegeneration(call[p].svc, call[p].overwrite)
       THEN Goto(p, "skip_deploy")
       ELSE Goto(p, "key")
    /\ UNCHANGED <<caKey, caCert, svcKey, svcCsr, svcCert, svcRootCA, svcDir,
                   keyGen, lastResult>>

\* sudo mkdir -p <dir under BASE_DIR/service>: made tells whether it succeeded
MkDir(s, made) == svcDir' = [svcDir EXCEPT ![s] = @ \/ made]

\* deploy_root_ca_to_service: sudo mkdir -p, then sudo cp -a rootCA.pem to
\* certs/rootCA.crt (bitwarden: bwdata/ssl/<domain>/ca.crt)
DeployCopy(s, ok, made) ==
    IF ok /\ caCert # NoFile
    THEN /\ svcRootCA' = [svcRootCA EXCEPT ![s] = caCert]
         /\ MkDir(s, TRUE)
    ELSE /\ UNCHANGED svcRootCA
         /\ MkDir(s, made)

\* the skip branch: deploy the root CA (result ignored) and return True
SkipDeploy(p) ==
    /\ call[p].pc = "skip_deploy"
    /\ \E ok \in BOOLEAN, made \in BOOLEAN : DeployCopy(call[p].svc, ok, made)
    /\ Return(p, TRUE)
    /\ UNCHANGED <<caKey, caCert, svcKey, svcCsr, svcCert, keyGen>>

\* create_service_key: mkdir -p and openssl genrsa -out private.key 4096
CreateServiceKey(p) ==
    /\ call[p].pc = "key"
    /\ \E ok \in BOOLEAN, made \in BOOLEAN :
         IF ok /\ keyGen < MaxKeyGen
         THEN /\ keyGen' = keyGen + 1
              /\ svcKey' = [svcKey EXCEPT ![call[p].svc] = keyGen + 1]
              /\ MkDir(call[p].svc, TRUE)
              /\ Goto(p, "csr")
              /\ UNCHANGED lastResult
         ELSE /\ Return(p, FALSE)
              /\ MkDir(call[p].svc, made)
              /\ UNCHANGED <<svcKey, keyGen>>
    /\ UNCHANGED <<caKey, caCert, svcCsr, svcCert, svcRootCA>>

\* create_service_csr: openssl req -new -key private.key -out request.csr
CreateServiceCsr(p) ==
    /\ call[p].pc = "csr"
    /\ \E ok \in BOOLEAN :
         IF ok /\ svcKey[call[p].svc] # NoFile
         THEN /\ svcCsr' = [svcCsr EXCEPT ![call[p].svc] = svcKey[call[p].svc]]
              /\ Goto(p, "sign")
              /\ UNCHANGED lastResult
         ELSE /\ Return(p, FALSE)
              /\ UNCHANGED svcCsr
    /\ UNCHANGED <<caKey, caCert, svcKey, svcCert, svcRootCA, svcDir, keyGen>>

\* sign_service_cert_with_ca: openssl x509 -req -CA rootCA.pem -CAkey
\* rootCA.key; openssl refuses a CA key that does not match the CA certificate
SignServiceCert(p) ==
    /\ call[p].pc = "sign"
    /\ \E ok \in BOOLEAN, made \in BOOLEAN :
         IF ok /\ svcCsr[call[p].svc] # NoFile /\ RootCAExists
               /\ caCert = caKey
         THEN /\ svcCert' = [svcCert EXCEPT ![call[p].svc] =
                                [subject |-> svcCsr[call[p].svc],
                                 issuer |-> caKey]]
              /\ MkDir(call[p].svc, TRUE)
              /\ Goto(p, "verify")
              /\ UNCHANGED lastResult
         ELSE /\ Return(p, FALSE)
              /\ MkDir(call[p].svc, made)
              /\ UNCHANGED svcCert
    /\ UNCHANGED <<caKey, caCert, svcKey, svcCsr, svcRootCA, keyGen>>

\* verify_service_cert: openssl verify -CAfile rootCA.pem certificate.crt
VerifyServiceCert(p) ==
    /\ call[p].pc = "verify"
    /\ \E ok \in BOOLEAN :
         IF ok /\ Verifies(svcCert[call[p].svc], caCert)
         THEN Goto(p, "deploy") /\ UNCHANGED lastResult
         ELSE Return(p, FALSE)
    /\ UNCHANGED <<caKey, caCert, svcKey, svcCsr, svcCert, svcRootCA, svcDir,
                   keyGen>>

\* deploy_root_ca_to_service as the last step: its failure fails the call
DeployRootCA(p) ==
    /\ call[p].pc = "deploy"
    /\ \E ok \in BOOLEAN, made \in BOOLEAN :
         /\ DeployCopy(call[p].svc, ok, made)
         /\ Return(p, ok /\ caCert # NoFile)
    /\ UNCHANGED <<caKey, caCert, svcKey, svcCsr, svcCert, keyGen>>

\* one step of a running create_service_certificate call
CertStep(p) ==
    \/ GenerateRootCAIfNeeded(p)
    \/ CreateRootCACheck(p)
    \/ CreateRootCAKey(p)
    \/ CreateRootCACert(p)
    \/ ExistsCheck(p)
    \/ SkipDeploy(p)
    \/ CreateServiceKey(p)
    \/ CreateServiceCsr(p)
    \/ SignServiceCert(p)
    \/ VerifyServiceCert(p)
    \/ DeployRootCA(p)

CertNext ==
    \/ \E p \in Procs : BeginCall(p) /\ UNCHANGED notCert
    \/ \E p \in Procs : GenerateRootCAIfNeeded(p) /\ UNCHANGED notCert
    \/ \E p \in Procs : CreateRootCACheck(p) /\ UNCHANGED notCert
    \/ \E p \in Procs : CreateRootCAKey(p) /\ UNCHANGED notCert
    \/ \E p \in Procs : CreateRootCACert(p) /\ UNCHANGED notCert
    \/ \E p \in Procs : ExistsCheck(p) /\ UNCHANGED notCert
    \/ \E p \in Procs : SkipDeploy(p) /\ UNCHANGED notCert
    \/ \E p \in Procs : CreateServiceKey(p) /\ UNCHANGED notCert
    \/ \E p \in Procs : CreateServiceCsr(p) /\ UNCHANGED notCert
    \/ \E p \in Procs : SignServiceCert(p) /\ UNCHANGED notCert
    \/ \E p \in Procs : VerifyServiceCert(p) /\ UNCHANGED notCert
    \/ \E p \in Procs : DeployRootCA(p) /\ UNCHANGED notCert

(***************************************************************************)
(* Environment files (scripts/ai4infra/utils/container/env_manager.py)     *)
(***************************************************************************)
\* keys a layer may define; DATA_DIR is one of the injected path variables
LayerKeys == {"A", "DATA_DIR"}

BaseDir == "/opt/ai4infra"

\* a Python dict with the given keys, every value being tag
Dict(keys, tag) == [k \in keys |-> tag]

EmptyDict == Dict({}, "")

\* a YAML value that is not a mapping (a scalar or a list)
NotADict == [isDict |-> FALSE, map |-> EmptyDict]

NoEnvFile == [exists |-> FALSE, lines |-> {}]

\* {**a, **b}: keys of both, b wins on collision
Merge(a, b) ==
    [k \in (DOMAIN a) \cup (DOMAIN b) |-> IF k \in DOMAIN b THEN b[k] ELSE a[k]]

\* config.get(name, {}) followed by the isinstance(..., dict) test
AsDict(layer) == IF layer.isDict THEN layer.map ELSE EmptyDict

\* a merge in which the earlier layer wins
MergeLayersFirstWins(L) ==
    Merge(Merge(Merge(AsDict(L.entry), AsDict(L.env)), AsDict(L.compose)),
          L.base)

\* merged = {**base_env, **compose_vars, **container_env, **entry_vars}
MergeLayers(L) ==
    Merge(Merge(Merge(L.base, AsDict(L.compose)), AsDict(L.env)),
          AsDict(L.entry))

\* the standard path variables of a service
StandardPaths(s) ==
    [k \in {"DATA_DIR", "CONF_DIR", "CERTS_DIR"} |->
        IF k = "DATA_DIR" THEN BaseDir \o "/" \o s \o "/data"
        ELSE IF k = "CONF_DIR" THEN BaseDir \o "/" \o s \o "/config"
        ELSE BaseDir \o "/" \o s \o "/certs"]

\* an injection that keeps a value a layer already defines
InjectStandardPathsKeepExisting(merged, s) == Merge(StandardPaths(s), merged)

\* merged["DATA_DIR"] = ..., merged["CONF_DIR"] = ..., merged["CERTS_DIR"] = ...
InjectStandardPaths(merged, s) == Merge(merged, StandardPaths(s))

\* the "k=v" lines written to the temporary file
EnvLines(merged) == {[key |-> k, value |-> merged[k]] : k \in DOMAIN merged}

EnvPath(s) == BaseDir \o "/" \o s \o "/.env"

\* generate_env(service); mvOk and chmodOk are the exit status of mv and chmod
GenerateEnv(s) ==
    LET merged == InjectStandardPaths(MergeLayers(envLayers[s]), s) IN
    /\ \E mvOk \in BOOLEAN, chmodOk \in BOOLEAN :
         IF ~svcDir[s] \/ DOMAIN merged = {}
         THEN /\ envResult' = [envResult EXCEPT ![s] = ""]
              /\ UNCHANGED envFile
         ELSE IF mvOk
         THEN /\ envFile' = [envFile EXCEPT ![s] =
                                [exists |-> TRUE, lines |-> EnvLines(merged)]]
              /\ envResult' = [envResult EXCEPT ![s] =
                                  IF chmodOk THEN EnvPath(s) ELSE ""]
         ELSE /\ envResult' = [envResult EXCEPT ![s] = ""]
              /\ UNCHANGED envFile
    /\ UNCHANGED envLayers

\* the dicts extract_env_vars can return for a section
BaseDicts == {Dict(K, "base_val") : K \in SUBSET LayerKeys}

\* the values a YAML key compose_vars / env_vars / entry_vars can hold
YamlLayers(tag) ==
    {[isDict |-> TRUE, map |-> Dict(K, tag)] : K \in SUBSET LayerKeys}
        \cup {NotADict}

AllLayers ==
    [base : BaseDicts, compose : YamlLayers("compose_val"),
     env : YamlLayers("env_val"), entry : YamlLayers("final_val")]

\* a service with no variables configured
EmptyLayers ==
    [base |-> EmptyDict, compose |-> [isDict |-> TRUE, map |-> EmptyDict],
     env |-> [isDict |-> TRUE, map |-> EmptyDict],
     entry |-> [isDict |-> TRUE, map |-> EmptyDict]]

\* no .env generated yet, nothing configured
EnvInitEmpty ==
    /\ envLayers = [s \in Services |-> EmptyLayers]
    /\ envFile = [s \in Services |-> NoEnvFile]
    /\ envResult = [s \in Services |-> "none"]

\* one service has any content in its four layers
EnvInit ==
    /\ \E s0 \in Services, L \in AllLayers :
         envLayers = [s \in Services |-> IF s = s0 THEN L ELSE EmptyLayers]
    /\ envFile = [s \in Services |-> NoEnvFile]
    /\ envResult = [s \in Services |-> "none"]

EnvNext == \E s \in Services : GenerateEnv(s) /\ UNCHANGED notEnv

(***************************************************************************)
(* Service discovery (scripts/ai4infra/utils/container/installer.py)       *)
(***************************************************************************)
\* the file names of the config directory
ConfigFiles ==
    {[stem |-> s, ext |-> "yml"] : s \in Services}
        \cup {[stem |-> "postgres", ext |-> "txt"]}

\* no such file
NoConfig == [parses |-> FALSE, top |-> "absent", svc |-> "none", en |-> "none"]

\* what yaml.safe_load makes of a file: a parse error, or a document whose
\* top level is null, another falsy value, a non-empty list, a non-empty
\* string or a mapping; in a mapping the key "service" is absent, null, a
\* string or a mapping; in that mapping "enable" is absent, true, false,
\* another truthy value (such as "no" in quotes) or another falsy value
ConfigContents ==
    {[parses |-> FALSE, top |-> "none", svc |-> "none", en |-> "none"]}
    \cup {[parses |-> TRUE, top |-> x, svc |-> "none", en |-> "none"] :
             x \in {"null", "falsy", "seq", "str"}}
    \cup {[parses |-> TRUE, top |-> "map", svc |-> v, en |-> "none"] :
             v \in {"absent", "null", "str"}}
    \cup {[parses |-> TRUE, top |-> "map", svc |-> "map", en |-> e] :
             e \in {"absent", "true", "false", "truthy", "falsy"}}

\* a well-formed service definition with enable: true
EnabledConfig == [parses |-> TRUE, top |-> "map", svc |-> "map", en |-> "true"]

\* what the loop body does with one file: "skip" (parse error caught,
\* continue), "raise" (AttributeError outside the try), "include" or "exclude"
FileOutcome(c) ==
    IF ~c.parses THEN "skip"
    ELSE LET \* cfg = yaml.safe_load(...) or {}
             cfgTop == IF c.top \in {"null", "falsy"} THEN "map" ELSE c.top
             cfgSvc == IF c.top \in {"null", "falsy"} THEN "absent" ELSE c.svc
         IN  IF cfgTop # "map" THEN "raise"       \* cfg.get: no such attribute
             ELSE IF cfgSvc = "absent" THEN "exclude" \* {}.get("enable", False)
             ELSE IF cfgSvc # "map" THEN "raise"    \* service_cfg.get
             ELSE IF c.en \in {"true", "truthy"} THEN "include"
             ELSE "exclude"

\* the files config_path.glob("*.yml") yields
Globbed(dir) == {f \in DOMAIN dir : dir[f] # NoConfig /\ f.ext = "yml"}

\* the orders in which glob can yield the files of S
Orders(S) ==
    {o \in [1..Cardinality(S) -> S] : \A i, j \in 1..Cardinality(S) :
                                         i # j => o[i] # o[j]}

\* the for loop of discover_services over the files in the given order
RECURSIVE ScanFiles(_, _, _)
ScanFiles(order, dir, services) ==
    IF order = <<>> THEN [raised |-> FALSE, services |-> services]
    ELSE LET f == Head(order)
             out == FileOutcome(dir[f])
         IN  IF out = "raise" THEN [raised |-> TRUE, services |-> <<>>]
             ELSE ScanFiles(Tail(order), dir,
                            IF out = "include" THEN Append(services, f.stem)
                            ELSE services)

\* discover_services(): glob, scan, return the list or raise
DiscoverServices ==
    /\ \E order \in Orders(Globbed(configDir)) :
         LET r == ScanFiles(order, configDir, <<>>) IN
         /\ discStatus' = IF r.raised THEN "raised" ELSE "returned"
         /\ discList' = r.services
    /\ UNCHANGED <<configDir, backupMethod>>

\* cfg.get("backup", {}).get("method", "copy"): what a config can declare
\* for the services at hand, a config without the key counting as copy
BackupMethods == {"pg_dump", "copy"}

\* postgres declares pg_dump, the other services the copy of the data
\* directory
DeclaredMethods ==
    [s \in Services |-> IF s = "postgres" THEN "pg_dump" ELSE "copy"]

\* any content of the config directory
DiscInit ==
    /\ configDir \in [ConfigFiles -> ConfigContents \cup {NoConfig}]
    /\ backupMethod = DeclaredMethods
    /\ discStatus = "none"
    /\ discList = <<>>

\* every service has a well-formed config with enable: true
DiscInitEnabled ==
    /\ configDir = [f \in ConfigFiles |->
                      IF f.ext = "yml" THEN EnabledConfig ELSE NoConfig]
    /\ backupMethod = DeclaredMethods
    /\ discStatus = "none"
    /\ discList = <<>>

\* every service has a well-formed config with enable: true and any backup
\* method, declared or not
DiscInitAnyMethod ==
    /\ configDir = [f \in ConfigFiles |->
                      IF f.ext = "yml" THEN EnabledConfig ELSE NoConfig]
    /\ backupMethod \in [Services -> BackupMethods]
    /\ discStatus = "none"
    /\ discList = <<>>

DiscNext == DiscoverServices /\ UNCHANGED notDisc

(***************************************************************************)
(* Containers (scripts/ai4infra/utils/container/base_manager.py)           *)
(***************************************************************************)
\* stop_container: docker stop on the running containers of the service; a
\* failing docker command is logged and leaves them running
StopContainer(s, ok) == running' = [running EXCEPT ![s] = @ /\ ~ok]

\* start_container: returns at once without docker-compose.yml, otherwise
\* runs docker compose up -d and logs its exit status
StartContainer(s, ok) ==
    running' = [running EXCEPT ![s] = @ \/ (composeFile[s] /\ ok)]

\* check_container can only report success for a container that is up
CheckResults(s) == IF running[s] THEN BOOLEAN ELSE {FALSE}

\* the services are installed and their containers are up
DockerInitInstalled ==
    /\ running = [s \in Services |-> TRUE]
    /\ composeFile = [s \in Services |-> TRUE]
    /\ overrideFile = TRUE
    /\ overrideTemplate = TRUE

\* a clean host
DockerInitClean ==
    /\ running = [s \in Services |-> FALSE]
    /\ composeFile = [s \in Services |-> FALSE]
    /\ overrideFile = FALSE
    /\ overrideTemplate = TRUE

\* a clean host and a repository with or without the override template
DockerInitAnyTemplate ==
    /\ running = [s \in Services |-> FALSE]
    /\ composeFile = [s \in Services |-> FALSE]
    /\ overrideFile = FALSE
    /\ overrideTemplate \in BOOLEAN

(***************************************************************************)
(* Backup file names (backup_manager.py, ai4infra-cli.py restore)          *)
(***************************************************************************)
MaxElapsed == 2

MaxBackups == 2

MaxCommands == 3

\* the wall clock at the start: year, month, day and second of the day; one
\* second before the hour changes from one digit to two
StartDate == <<2025, 11, 19>>

StartOfRun == (9 * 3600) + (59 * 60) + 59

Pow10(k) ==
    IF k = 0 THEN 1 ELSE IF k = 1 THEN 10 ELSE IF k = 2 THEN 100 ELSE 1000

\* the decimal digits of n without leading zeros, as character codes
Unpadded(n, width) ==
    LET len == IF n >= 1000 THEN 4 ELSE IF n >= 100 THEN 3
               ELSE IF n >= 10 THEN 2 ELSE 1
    IN  [i \in 1..len |-> 48 + ((n \div Pow10(len - i)) % 10)]

\* a strftime field: the decimal digits of n, zero-padded to the width, as
\* character codes ("0" is 48)
Pad(n, width) == [i \in 1..width |-> 48 + ((n \div Pow10(width - i)) % 10)]

\* datetime.now().strftime("%Y%m%d_%H%M%S") when the clock has advanced t
\* seconds ("_" is 95)
FormatTimestamp(t) ==
    LET sec == StartOfRun + t
        day == StartDate[3] + (sec \div 86400)
    IN  Pad(StartDate[1], 4) \o Pad(StartDate[2], 2) \o Pad(day, 2) \o <<95>>
            \o Pad((sec \div 3600) % 24, 2) \o Pad((sec \div 60) % 60, 2)
            \o Pad(sec % 60, 2)

\* the timestamps of the clock times of the model
Timestamps == [t \in 0..MaxElapsed |-> FormatTimestamp(t)]

\* the part of the name <service>_<timestamp>.tar.gz.gpg of the file
\* written at clock time t that differs between the files of one backup
\* directory, up to the first character of the common suffix ("." is 46)
FileName(t) == Timestamps[t] \o <<46>>

\* Python's str comparison a < b: lexicographic by character code, a proper
\* prefix being smaller
RECURSIVE StrLess(_, _)
StrLess(a, b) ==
    IF b = <<>> THEN FALSE
    ELSE IF a = <<>> THEN TRUE
    ELSE IF Head(a) # Head(b) THEN Head(a) < Head(b)
    ELSE StrLess(Tail(a), Tail(b))

\* files.sort(reverse=True); files[0]
FirstOfReverseSort(names) ==
    CHOOSE n \in names : \A m \in names : m # n => StrLess(m, n)
(***************************************************************************)
(* backup_data and the backup command                                      *)
(* (backup_manager.py, ai4infra-cli.py backup)                             *)
(***************************************************************************)
\* the files a data directory can hold, and what a file can hold (0: the
\* file does not exist)
DataFiles == {"f1"}

FileContents == {0, 1, 2}

EmptyFiles == [f \in DataFiles |-> 0]

\* a data directory that does not exist
NoDataDir == [exists |-> FALSE, files |-> EmptyFiles]

\* what an archive holds: a database dump, or a copy of the data directory
\* under data/
DumpContent == [kind |-> "dump", files |-> EmptyFiles]

DataContent(files) == [kind |-> "data", files |-> files]

\* backup.method of config/<service>.yml
BackupMethod(s) == backupMethod[s]

\* gpg --yes --output: a file of the same name is replaced
PutArtifact(dir, a) ==
    {x \in dir : FileName(x.time) # FileName(a.time)} \cup {a}

\* <service>_<timestamp>.tar.gz.gpg written at clock time t, the n-th file
\* written: the tar of the pg_dump output or of the copied data directory
Artifact(svc, t, n) ==
    [time |-> t,
     content |-> IF BackupMethod(svc) = "pg_dump" THEN DumpContent
                 ELSE DataContent(dataDir[svc].files),
     order |-> n]

\* a file that does not exist
NoTime == 0 - 1

\* no command is running
NoCmd ==
    [name |-> "none", pc |-> "idle", batch |-> <<>>, idx |-> 0,
     cold |-> FALSE, reset |-> FALSE, svc |-> "none", file |-> NoTime,
     auto |-> FALSE, ret |-> FALSE, calls |-> <<>>]

At(name, pc) == cmd.name = name /\ cmd.pc = pc

\* no command is running: none has run, or the last one has returned
\* ("done") or ended with an uncaught exception ("crashed")
NoCommandRunning == cmd.pc \in {"idle", "done", "crashed"}

\* the container of a service writes, rewrites or removes a file of its
\* data directory
ServiceWrites(s) ==
    /\ running[s]
    /\ BackupMethod(s) = "copy"
    /\ \E f \in DataFiles, v \in FileContents :
         /\ dataDir[s].files[f] # v
         /\ dataDir' = [dataDir EXCEPT ![s] =
                [exists |-> TRUE, files |-> [dataDir[s].files EXCEPT ![f] = v]]]
    /\ UNCHANGED <<artifacts, clock, nCreated, nCommands, backupPassword,
                   tmp, cmd, processed, running, envVars>>

\* the variant in which the functions go on without a passphrase
PassphraseAbsentNever == FALSE

\* not BACKUP_PASSWORD: the variable is unset or empty
PassphraseAbsent == ~backupPassword

\* BACKUP_PASSWORD is read from .env when a command starts; between two
\* commands the operator sets or removes it
SetBackupPassword ==
    /\ NoCommandRunning
    /\ backupPassword' = ~backupPassword
    /\ UNCHANGED <<dataDir, artifacts, clock, nCreated, nCommands, tmp, cmd,
                   processed, running, envVars>>

\* the subprocess calls of backup_data whose failure ends it, in order; the
\* first to exit non-zero is "none" when all succeed
BackupSteps ==
    {"none", "mkdir_temp", "collect", "tar", "mkdir_backup", "rm_temp",
     "rm_tar"}

\* the exit statuses of the calls of one backup_data: the first failing
\* step, whether gpg succeeds, whether the unchecked rm -rf succeeds; the
\* statuses of calls that a failure leaves unreached are not enumerated
BackupOutcomes ==
    {o \in [fail : BackupSteps, gpgOk : BOOLEAN, rmOk : BOOLEAN] :
        /\ o.fail \in {"mkdir_temp", "collect", "tar", "mkdir_backup"}
              => o.gpgOk
        /\ o.fail \in {"mkdir_temp", "mkdir_backup", "rm_temp", "rm_tar"}
              => o.rmOk}

\* backup_data(svc) with the container up or not, gpg succeeding or not:
\* whether a CalledProcessError leaves the function, whether it returns a
\* file name, whether it has written the encrypted file, and what it leaves
\* in /tmp
BackupData(svc, up, fail, gpgOk, rmOk) ==
    LET dump == BackupMethod(svc) = "pg_dump"
        out(raised, ret, wrote, left) ==
            [raised |-> raised, ret |-> ret, wrote |-> wrote, left |-> left]
        afterRm == IF rmOk THEN {} ELSE {"temp_root"}
    IN  IF PassphraseAbsent THEN out(FALSE, FALSE, FALSE, {})
        ELSE IF fail = "mkdir_temp" THEN out(TRUE, FALSE, FALSE, {})
        ELSE IF dump /\ (fail = "collect" \/ ~up)
        THEN out(FALSE, FALSE, FALSE, afterRm)
        ELSE IF ~dump /\ ~dataDir[svc].exists
        THEN out(FALSE, FALSE, FALSE, afterRm)
        ELSE IF ~dump /\ fail = "collect"
        THEN out(TRUE, FALSE, FALSE, {"temp_root"})
        ELSE IF fail = "tar" THEN out(FALSE, FALSE, FALSE, afterRm)
        ELSE IF fail = "mkdir_backup"
        THEN out(TRUE, FALSE, FALSE, {"temp_root", "tar"})
        ELSE IF fail = "rm_temp"
        THEN out(TRUE, FALSE, gpgOk, {"temp_root", "tar"})
        ELSE IF fail = "rm_tar" THEN out(TRUE, FALSE, gpgOk, {"tar"})
        ELSE out(FALSE, gpgOk, gpgOk, {})

\* backup(service, cold): the list of services
BackupBegin(service, cold) ==
    /\ NoCommandRunning
    /\ nCommands < MaxCommands
    /\ nCommands' = nCommands + 1
    /\ IF service = "all"
       THEN \E order \in Orders(Globbed(configDir)) :
              LET r == ScanFiles(order, configDir, <<>>) IN
              cmd' = IF r.raised
                     THEN [NoCmd EXCEPT !.name = "backup", !.pc = "crashed"]
                     ELSE [NoCmd EXCEPT !.name = "backup",
                                        !.pc = IF r.services = <<>>
                                               THEN "done" ELSE "bk_loop",
                                        !.batch = r.services, !.idx = 1,
                                        !.cold = cold]
       ELSE cmd' = [NoCmd EXCEPT !.name = "backup", !.pc = "bk_loop",
                                 !.batch = <<service>>, !.idx = 1,
                                 !.cold = cold]
    /\ processed' = {}
    /\ tmp' = {}
    /\ UNCHANGED <<dataDir, artifacts, clock, nCreated, backupPassword,
                   running, envVars>>

\* the variant without the finally clause: an exception of backup_data
\* leaves the loop body before start_container
BackupCallsNoFinally(cold, raised) ==
    IF ~cold THEN <<"backup_data">>
    ELSE IF raised THEN <<"stop_container", "backup_data">>
    ELSE <<"stop_container", "backup_data", "start_container">>

\* the calls of one iteration of the loop of backup, in order: with --cold
\* stop_container, backup_data inside try and start_container in the
\* finally clause, which runs whether backup_data raised or not
BackupCalls(cold, raised) ==
    IF cold THEN <<"stop_container", "backup_data", "start_container">>
    ELSE <<"backup_data">>

\* the call is among those made
Called(name, calls) == \E i \in 1..Len(calls) : calls[i] = name

\* one iteration of the loop: a cold backup stops the container, calls
\* backup_data and starts the container in the finally clause; a hot backup
\* calls backup_data; a CalledProcessError ends the command, and so does
\* the end of the list
BackupService ==
    /\ At("backup", "bk_loop")
    /\ \E t \in IF backupPassword THEN clock..MaxElapsed ELSE {clock},
          o \in BackupOutcomes,
          stopOk \in IF cmd.cold THEN BOOLEAN ELSE {FALSE},
          startOk \in IF cmd.cold THEN BOOLEAN ELSE {FALSE} :
         LET svc == cmd.batch[cmd.idx]
             up == IF cmd.cold THEN running[svc] /\ ~stopOk ELSE running[svc]
             r == BackupData(svc, up, o.fail, o.gpgOk, o.rmOk)
             calls == BackupCalls(cmd.cold, r.raised)
         IN  /\ r.wrote => nCreated < MaxBackups
             /\ processed' = processed \cup {svc}
             /\ clock' = t
             /\ running' = [running EXCEPT ![svc] =
                   IF Called("start_container", calls)
                   THEN up \/ (composeFile[svc] /\ startOk)
                   ELSE up]
             /\ tmp' = r.left
             /\ artifacts' = [artifacts EXCEPT ![svc] =
                   IF r.wrote
                   THEN PutArtifact(@, Artifact(svc, t, nCreated + 1))
                   ELSE @]
             /\ nCreated' = IF r.wrote THEN nCreated + 1 ELSE nCreated
             /\ cmd' = IF r.raised
                       THEN [cmd EXCEPT !.svc = svc, !.pc = "crashed",
                                        !.calls = calls]
                       ELSE [cmd EXCEPT !.svc = svc, !.ret = r.ret,
                                        !.calls = calls,
                                        !.idx = @ + 1,
                                        !.pc = IF cmd.idx = Len(cmd.batch)
                                               THEN "done" ELSE "bk_loop"]
    /\ UNCHANGED <<dataDir, nCommands, backupPassword, envVars>>

(***************************************************************************)
(* restore_data and the restore command                                    *)
(* (backup_manager.py, ai4infra-cli.py restore)                            *)
(***************************************************************************)
HotRestoreServices == {"postgres", "vault"}

\* the names of the files of BASE_DIR/backups/<service>
FileNames(s) == {FileName(a.time) : a \in artifacts[s]}

\* the file of that name
ArtifactNamed(s, name) == CHOOSE a \in artifacts[s] : FileName(a.time) = name

\* rsync -a src/ dst/: every file of the source is written to the
\* destination
RsyncArchive(src, dst) ==
    [f \in DataFiles |-> IF src[f] # 0 THEN src[f] ELSE dst[f]]

\* the subprocess calls of restore_data, in order
RestoreSteps ==
    {"none", "decrypt", "tar", "hook", "mkdir_data", "rsync", "rm_tar",
     "rm_extract"}

\* restore_data(svc, file), file being the clock time in the name of the
\* backup file, with the container up or not: whether a
\* CalledProcessError leaves the function, what it returns, the data
\* directory afterwards and what it leaves in /tmp
RestoreData(svc, file, up, fail) ==
    LET content == ArtifactNamed(svc, FileName(file)).content
        dump == BackupMethod(svc) = "pg_dump"
        out(raised, ret, data, left) ==
            [raised |-> raised, ret |-> ret, data |-> data, left |-> left]
        old == dataDir[svc]
        made == [exists |-> TRUE, files |-> old.files]
        synced == [exists |-> TRUE,
                   files |-> RsyncArchive(content.files, old.files)]
        both == {"restore_tar", "restore_extract"}
        \* the cleanup and the return
        clean(success, data) ==
            IF fail = "rm_tar" THEN out(TRUE, FALSE, data, both)
            ELSE IF fail = "rm_extract"
            THEN out(TRUE, FALSE, data, {"restore_extract"})
            ELSE out(FALSE, success, data, {})
    IN  IF PassphraseAbsent THEN out(FALSE, FALSE, old, {})
        ELSE IF fail = "decrypt" THEN out(FALSE, FALSE, old, {})
        ELSE IF fail = "tar" THEN out(FALSE, FALSE, old, both)
        ELSE IF dump
        THEN clean(content.kind = "dump" /\ up /\ fail # "hook", old)
        ELSE IF content.kind # "data" THEN clean(FALSE, old)
        ELSE IF fail = "mkdir_data" THEN out(TRUE, FALSE, old, both)
        ELSE IF fail = "rsync" THEN out(TRUE, FALSE, made, both)
        ELSE clean(TRUE, synced)

\* restore(service, backup_file): the backup file is the one given, or with
\* no argument the first of the reverse-sorted directory listing; the
\* command returns when there is no such file
RestoreBegin(service, arg) ==
    /\ NoCommandRunning
    /\ nCommands < MaxCommands
    /\ nCommands' = nCommands + 1
    /\ \E given \in {a.time : a \in artifacts[service]} \cup {NoTime} :
         LET names == FileNames(service)
             file == IF arg # "none" THEN given
                     ELSE IF names = {} THEN NoTime
                     ELSE ArtifactNamed(service,
                                        FirstOfReverseSort(names)).time
         IN  cmd' = [NoCmd EXCEPT !.name = "restore", !.svc = service,
                                  !.file = file, !.auto = (arg = "none"),
                                  !.pc = IF file = NoTime THEN "done"
                                         ELSE "rs_mode"]
    /\ processed' = {}
    /\ tmp' = {}
    /\ UNCHANGED <<dataDir, artifacts, clock, nCreated, backupPassword,
                   running, envVars>>

\* hot restore: start the container unless check_container finds it; cold
\* restore: stop_container
RestoreMode ==
    /\ At("restore", "rs_mode")
    /\ \E ok \in BOOLEAN :
         IF cmd.svc \in HotRestoreServices
         THEN \E up \in CheckResults(cmd.svc) :
                IF up
                THEN /\ UNCHANGED running
                     /\ cmd' = [cmd EXCEPT !.pc = "rs_data",
                                           !.calls = <<"check_container">>]
                ELSE /\ StartContainer(cmd.svc, ok)
                     /\ cmd' = [cmd EXCEPT !.pc = "rs_data",
                                           !.calls = <<"check_container",
                                                       "start_container">>]
         ELSE /\ StopContainer(cmd.svc, ok)
              /\ cmd' = [cmd EXCEPT !.pc = "rs_data",
                                    !.calls = <<"stop_container">>]
    /\ UNCHANGED <<dataDir, artifacts, clock, nCreated, nCommands,
                   backupPassword, tmp, processed, envVars>>

\* restore_data inside try; after a successful cold restore generate_env,
\* apply_service_permissions and start_container; the check_container
\* calls; an exception of restore_data is caught and logged
RestoreService ==
    /\ At("restore", "rs_data")
    /\ \E fail \in RestoreSteps :
         LET svc == cmd.svc
             r == RestoreData(svc, cmd.file, running[svc], fail)
         IN  /\ dataDir' = [dataDir EXCEPT ![svc] = r.data]
             /\ tmp' = r.left
             /\ IF r.ret /\ svc \notin HotRestoreServices
                THEN /\ GenerateEnv(svc)
                     /\ \E ok \in BOOLEAN : StartContainer(svc, ok)
                     /\ cmd' = [cmd EXCEPT
                                  !.ret = r.ret, !.pc = "done",
                                  !.calls = @ \o
                                     <<"restore_data", "generate_env",
                                       "apply_service_permissions",
                                       "start_container">>]
                ELSE /\ UNCHANGED <<running, envVars>>
                     /\ cmd' = [cmd EXCEPT
                                  !.ret = r.ret, !.pc = "done",
                                  !.calls = @ \o <<"restore_data">>]
    /\ UNCHANGED <<artifacts, clock, nCreated, nCommands, backupPassword,
                   processed>>

\* installed services with any data, no backups yet
BackupInit ==
    /\ dataDir \in [Services ->
                      {NoDataDir} \cup {[exists |-> TRUE, files |-> fs] :
                                          fs \in [DataFiles -> FileContents]}]
    /\ \A s \in Services : BackupMethod(s) # "copy" => dataDir[s] = NoDataDir
    /\ artifacts = [s \in Services |-> {}]
    /\ clock = 0
    /\ nCreated = 0
    /\ nCommands = 0
    /\ backupPassword \in BOOLEAN
    /\ tmp = {}
    /\ cmd = NoCmd
    /\ processed = {}

\* no data, no backups
BackupInitEmpty ==
    /\ dataDir = [s \in Services |-> NoDataDir]
    /\ artifacts = [s \in Services |-> {}]
    /\ clock = 0
    /\ nCreated = 0
    /\ nCommands = 0
    /\ backupPassword = TRUE
    /\ tmp = {}
    /\ cmd = NoCmd
    /\ processed = {}

BackupNext ==
    \/ \E s \in Services : ServiceWrites(s) /\ UNCHANGED notBackup
    \/ \E service \in Services \cup {"all"}, cold \in BOOLEAN :
         BackupBegin(service, cold) /\ UNCHANGED notBackup
    \/ BackupService /\ UNCHANGED notBackup
    \/ \E service \in Services, arg \in {"none", "path"} :
         RestoreBegin(service, arg) /\ UNCHANGED notBackup
    \/ RestoreMode /\ UNCHANGED notBackup
    \/ RestoreService /\ UNCHANGED notBackup

(***************************************************************************)
(* The install command (ai4infra-cli.py install)                           *)
(***************************************************************************)
MaxInstalls == 2

\* the core services in their installation order
CORE_ORDER == <<"postgres", "vault", "ldap", "keycloak", "nginx">>

\* the elements of a list
ListElements(list) == {list[i] : i \in 1..Len(list)}

\* [s for s in list if s in keep]
RECURSIVE FilterList(_, _)
FilterList(list, keep) ==
    IF list = <<>> THEN <<>>
    ELSE IF Head(list) \in keep
    THEN <<Head(list)>> \o FilterList(Tail(list), keep)
    ELSE FilterList(Tail(list), keep)

\* core_to_install + addons_to_install; the add-ons come in the iteration
\* order of a set
InstallOrders(discovered) ==
    {FilterList(CORE_ORDER, discovered) \o addons :
        addons \in Orders(discovered \ ListElements(CORE_ORDER))}

\* the caller of create_service_certificate in install
Installer == "p1"

\* what the command leaves alone
notInstall == <<discVars, envLayers, overrideTemplate, artifacts, clock,
                nCreated, backupPassword, toolVars, cliVars>>

\* the CA files and the running certificate calls
caVars == <<caKey, caCert, keyGen, call, lastResult>>

\* the files under BASE_DIR/<service>
serviceFiles == <<svcDir, svcKey, svcCsr, svcCert, svcRootCA, envFile,
                  composeFile, overrideFile, dataDir>>

\* the loop goes on with the next service of the list, or the command ends
NextService ==
    [cmd EXCEPT !.idx = @ + 1,
                !.pc = IF cmd.idx = Len(cmd.batch) THEN "done" ELSE "in_stop"]

\* install(service, reset): the list of services
InstallBegin(service, reset) ==
    /\ NoCommandRunning
    /\ nCommands < MaxInstalls
    /\ nCommands' = nCommands + 1
    /\ IF service = "all"
       THEN \E order \in Orders(Globbed(configDir)) :
              LET r == ScanFiles(order, configDir, <<>>) IN
              IF r.raised
              THEN cmd' = [NoCmd EXCEPT !.name = "install", !.pc = "crashed"]
              ELSE \E services \in InstallOrders(ListElements(r.services)) :
                     cmd' = [NoCmd EXCEPT !.name = "install",
                                          !.pc = IF services = <<>>
                                                 THEN "done" ELSE "in_stop",
                                          !.batch = services, !.idx = 1,
                                          !.reset = reset]
       ELSE cmd' = [NoCmd EXCEPT !.name = "install", !.pc = "in_stop",
                                 !.batch = <<service>>, !.idx = 1,
                                 !.reset = reset]
    /\ processed' = {}
    /\ tmp' = {}
    /\ UNCHANGED <<caVars, serviceFiles, running, envResult>>

\* rm -rf service_dir: everything under the service directory is gone
RemoveServiceDir(s) ==
    /\ svcDir' = [svcDir EXCEPT ![s] = FALSE]
    /\ svcKey' = [svcKey EXCEPT ![s] = NoFile]
    /\ svcCsr' = [svcCsr EXCEPT ![s] = NoFile]
    /\ svcCert' = [svcCert EXCEPT ![s] = NoCert]
    /\ svcRootCA' = [svcRootCA EXCEPT ![s] = NoFile]
    /\ envFile' = [envFile EXCEPT ![s] = NoEnvFile]
    /\ composeFile' = [composeFile EXCEPT ![s] = FALSE]
    /\ overrideFile' = IF s = "postgres" THEN FALSE ELSE overrideFile
    /\ dataDir' = [dataDir EXCEPT ![s] = NoDataDir]

\* the head of the loop body: stop_container, and with --reset rm -rf of
\* the service directory, its exit status ignored
InstallStop ==
    /\ At("install", "in_stop")
    /\ LET svc == cmd.batch[cmd.idx] IN
       /\ processed' = processed \cup {svc}
       /\ cmd' = [cmd EXCEPT !.svc = svc, !.pc = "in_copy"]
       /\ \E ok \in BOOLEAN : StopContainer(svc, ok)
       /\ \E rmOk \in BOOLEAN :
            IF cmd.reset /\ rmOk THEN RemoveServiceDir(svc)
            ELSE UNCHANGED serviceFiles
    /\ UNCHANGED <<caVars, envResult, nCommands, tmp>>

\* copy_template: sudo mkdir -p service_dir, then rsync of the template
\* without docker-compose.override.yml for postgres; a failure is logged;
\* then apply_service_permissions
InstallCopyTemplate ==
    /\ At("install", "in_copy")
    /\ cmd' = [cmd EXCEPT !.pc = "in_cert"]
    /\ \E made \in BOOLEAN, copied \in BOOLEAN :
         /\ MkDir(cmd.svc, made)
         /\ composeFile' = [composeFile EXCEPT ![cmd.svc] =
                               @ \/ (made /\ copied)]
    /\ UNCHANGED <<caVars, svcKey, svcCsr, svcCert, svcRootCA, envFile,
                   overrideFile, dataDir, running, envResult, nCommands, tmp,
                   processed>>

\* create_service_certificate(service=svc, san=None) is entered
InstallCertificate ==
    /\ At("install", "in_cert")
    /\ cmd' = [cmd EXCEPT !.pc = "in_cert_run"]
    /\ StartCall(Installer, cmd.svc, FALSE)
    /\ UNCHANGED <<envFile, composeFile, overrideFile, dataDir, running,
                   envResult, nCommands, tmp, processed>>

\* a step of the create_service_certificate call of install
InstallCertificateStep ==
    /\ At("install", "in_cert_run")
    /\ call[Installer].pc # "idle"
    /\ CertStep(Installer)
    /\ UNCHANGED <<cmd, envFile, composeFile, overrideFile, dataDir, running,
                   envResult, nCommands, tmp, processed>>

\* create_service_certificate has returned and its result is dropped:
\* generate_env
InstallEnv ==
    /\ At("install", "in_cert_run")
    /\ call[Installer].pc = "idle"
    /\ cmd' = [cmd EXCEPT !.pc = "in_start"]
    /\ GenerateEnv(cmd.svc)
    /\ UNCHANGED <<certVars, composeFile, overrideFile, dataDir, running,
                   nCommands, tmp, processed>>

\* start_container, setup_nginx_for_service, check_container; postgres goes
\* on with its second step
InstallStart ==
    /\ At("install", "in_start")
    /\ cmd' = IF cmd.svc = "postgres" THEN [cmd EXCEPT !.pc = "in_tls"]
              ELSE NextService
    /\ \E ok \in BOOLEAN : StartContainer(cmd.svc, ok)
    /\ UNCHANGED <<certVars, serviceFiles, envResult, nCommands, tmp,
                   processed>>

\* postgres, second step: stop_container, then cp -a of the override
\* template into the service directory with check=True; without the
\* template the loop continues with the next service
InstallPostgresOverride ==
    /\ At("install", "in_tls")
    /\ \E ok \in BOOLEAN : StopContainer("postgres", ok)
    /\ \E ok \in BOOLEAN :
         LET copied == overrideTemplate /\ svcDir["postgres"] /\ ok IN
         /\ overrideFile' = (overrideFile \/ copied)
         /\ cmd' = IF ~overrideTemplate THEN NextService
                   ELSE IF copied THEN [cmd EXCEPT !.pc = "in_tls_start"]
                   ELSE [cmd EXCEPT !.pc = "crashed"]
    /\ UNCHANGED <<certVars, envFile, composeFile, dataDir, envResult,
                   nCommands, tmp, processed>>

\* postgres, second step: apply_service_permissions, start_container,
\* check_container
InstallPostgresStart ==
    /\ At("install", "in_tls_start")
    /\ cmd' = NextService
    /\ \E ok \in BOOLEAN : StartContainer("postgres", ok)
    /\ UNCHANGED <<certVars, serviceFiles, envResult, nCommands, tmp,
                   processed>>

InstallNext ==
    \/ \E service \in Services \cup {"all"}, reset \in BOOLEAN :
         InstallBegin(service, reset) /\ UNCHANGED notInstall
    \/ InstallStop /\ UNCHANGED notInstall
    \/ InstallCopyTemplate /\ UNCHANGED notInstall
    \/ InstallCertificate /\ UNCHANGED notInstall
    \/ InstallCertificateStep /\ UNCHANGED notInstall
    \/ InstallEnv /\ UNCHANGED notInstall
    \/ InstallStart /\ UNCHANGED notInstall
    \/ InstallPostgresOverride /\ UNCHANGED notInstall
    \/ InstallPostgresStart /\ UNCHANGED notInstall

(***************************************************************************)
(* Health checks (scripts/ai4infra/utils/container/health_postgres.py)     *)
(***************************************************************************)
UpperCase == "ABCDEFGHIJKLMNOPQRSTUVWXYZ"
LowerCase == "abcdefghijklmnopqrstuvwxyz"

\* sub in s
Contains(sub, s) ==
    \E i \in 1..(Len(s) - Len(sub) + 1) : SubSeq(s, i, i + Len(sub) - 1) = sub

\* str.lower() of a one-character string
LowerChar(c) ==
    IF \E i \in 1..Len(UpperCase) : SubSeq(UpperCase, i, i) = c
    THEN LET i == CHOOSE j \in 1..Len(UpperCase) : SubSeq(UpperCase, j, j) = c
         IN  SubSeq(LowerCase, i, i)
    ELSE c

RECURSIVE Lower(_)
\* s.lower()
Lower(s) ==
    IF Len(s) = 0 THEN s
    ELSE LowerChar(SubSeq(s, 1, 1)) \o Lower(SubSeq(s, 2, Len(s)))

\* the Status column docker ps prints for a container that is listed
ContainerStatuses ==
    {"Up 2 minutes", "Up 3 seconds (health: starting)",
     "Up 2 minutes (healthy)", "Up 2 minutes (unhealthy)",
     "Restarting (1) 3 seconds ago"}

\* the stripped output of docker ps --filter name=<container> for one
\* container: nothing when it is not listed
PsOutputs == ContainerStatuses \cup {""}

\* status = ps.stdout.strip().lower()
LowerStatus == [s \in PsOutputs |-> Lower(s)]

PostgresPolls == 60

\* check_postgres_tls_diagnostics: missing is whether a file test, the key
\* mode or the key owner failed, sslState the answer to SHOW ssl
CheckPostgresTlsDiagnostics(tlsMustBeOn, sslState, missing) ==
    IF tlsMustBeOn /\ sslState # "on" THEN FALSE
    ELSE ~missing

NoPgCheck ==
    [pc |-> "idle", attempt |-> 0, output |-> "", sql |-> FALSE, ret |-> FALSE]

\* entry of check_postgres(service)
CheckPostgresBegin ==
    /\ pgCheck.pc \in {"idle", "done"}
    /\ pgCheck' = [NoPgCheck EXCEPT !.pc = "poll"]

\* one iteration of for attempt in range(60): docker ps, break on
\* "healthy" in status, return False on "unhealthy" in status, else sleep;
\* the else clause of the loop returns False
CheckPostgresPoll ==
    /\ pgCheck.pc = "poll"
    /\ \E out \in PsOutputs :
         LET status == LowerStatus[out] IN
         pgCheck' =
            IF Contains("healthy", status)
            THEN [pgCheck EXCEPT !.output = out, !.pc = "sql"]
            ELSE IF Contains("unhealthy", status)
            THEN [pgCheck EXCEPT !.output = out, !.pc = "done",
                                 !.ret = FALSE]
            ELSE IF pgCheck.attempt + 1 = PostgresPolls
            THEN [pgCheck EXCEPT !.output = out, !.attempt = @ + 1,
                                 !.pc = "done", !.ret = FALSE]
            ELSE [pgCheck EXCEPT !.output = out, !.attempt = @ + 1]

\* SELECT 1 (its result is only logged), SHOW ssl, and the TLS diagnostics
\* whose result is returned
CheckPostgresSql ==
    /\ pgCheck.pc = "sql"
    /\ \E sslValue \in {"on", "off", ""}, sslState \in {"on", "off", ""},
          missing \in BOOLEAN :
         pgCheck' = [pgCheck EXCEPT
            !.sql = TRUE,
            !.pc = "done",
            !.ret = CheckPostgresTlsDiagnostics(sslValue = "on", sslState,
                                                missing)]

(***************************************************************************)
(* check_vault (scripts/ai4infra/utils/container/health_vault.py)          *)
(***************************************************************************)
Digits == "0123456789"

\* str.isdigit(): not empty, every character a digit
IsDigit(s) ==
    /\ Len(s) > 0
    /\ \A i \in 1..Len(s) :
         \E d \in 1..Len(Digits) : SubSeq(Digits, d, d) = SubSeq(s, i, i)

\* the value of a digit character
DigitValue(c) ==
    (CHOOSE d \in 1..Len(Digits) : SubSeq(Digits, d, d) = c) - 1

RECURSIVE ParseInt(_)
\* int(s) of a string of digits
ParseInt(s) ==
    IF Len(s) = 0 THEN 0
    ELSE (10 * ParseInt(SubSeq(s, 1, Len(s) - 1)))
            + DigitValue(SubSeq(s, Len(s), Len(s)))

\* what curl -w '%{http_code}' prints: the HTTP code, 000 when there was no
\* HTTP response, nothing when curl did not run to its end
CurlOutputs == {"", "000", "200", "429", "501", "503"}

\* /tmp/vault_health.json cannot be read
Unreadable == "unreadable"

\* what /tmp/vault_health.json holds after the curl call, stripped: the
\* body of this response, or what an earlier call wrote
HealthFiles ==
    {Unreadable, "", "{\"sealed\": true}", "[]", "<html>"}

\* json.loads(body): an object, another JSON value, or a JSONDecodeError
JsonLoads(body) ==
    IF body = "{\"sealed\": true}" THEN "object"
    ELSE IF body = "[]" THEN "array"
    ELSE "error"

\* VAULT_HEALTH_MAP.get(status_code, "Unknown status")
VAULT_HEALTH_MAP(code) ==
    IF code = 200 THEN "OK (initialized, unsealed, active)"
    ELSE IF code = 429 THEN "Standby (initialized, unsealed, standby)"
    ELSE IF code = 472 THEN "DR Secondary"
    ELSE IF code = 473 THEN "Performance Standby"
    ELSE IF code = 474 THEN "Standby but active node unreachable"
    ELSE IF code = 501 THEN "Not initialized"
    ELSE IF code = 503 THEN "Sealed (unsealed required)"
    ELSE IF code = 530 THEN "Node removed from cluster"
    ELSE "Unknown status"

VaultPolls == 20

NoVaultCheck ==
    [pc |-> "idle", attempt |-> 0, stdout |-> "", status_code |-> 0,
     response_body |-> "", meaning |-> "", ret |-> FALSE]

\* entry of check_vault(service): status_code and response_body are None
CheckVaultBegin ==
    /\ vaultCheck.pc \in {"idle", "done", "raised"}
    /\ vaultCheck' = [NoVaultCheck EXCEPT !.pc = "poll"]

\* one iteration of for attempt in range(20): curl, status_code assigned
\* only when the output is a number, response_body read from the file;
\* break when both are truthy; after the loop return False when no
\* iteration broke out
CheckVaultPoll ==
    /\ vaultCheck.pc = "poll"
    /\ \E out \in CurlOutputs, file \in HealthFiles :
         LET code == IF IsDigit(out) THEN ParseInt(out)
                     ELSE vaultCheck.status_code
             body == IF file = Unreadable THEN "" ELSE file
             polled == [vaultCheck EXCEPT !.stdout = out,
                                          !.status_code = code,
                                          !.response_body = body]
         IN  vaultCheck' =
                IF code # 0 /\ body # ""
                THEN [polled EXCEPT !.pc = "parse"]
                ELSE IF vaultCheck.attempt + 1 = VaultPolls
                THEN [polled EXCEPT !.attempt = @ + 1, !.pc = "done",
                                    !.ret = FALSE]
                ELSE [polled EXCEPT !.attempt = @ + 1]

\* the description of the code is logged, the body parsed: False on a
\* parse error, an AttributeError leaves the function when data has no get
CheckVaultParse ==
    /\ vaultCheck.pc = "parse"
    /\ LET data == JsonLoads(vaultCheck.response_body)
           logged == [vaultCheck EXCEPT
                        !.meaning = VAULT_HEALTH_MAP(vaultCheck.status_code)]
       IN  vaultCheck' =
              IF data = "error"
              THEN [logged EXCEPT !.pc = "done", !.ret = FALSE]
              ELSE IF data = "object"
              THEN [logged EXCEPT !.pc = "done", !.ret = TRUE]
              ELSE [logged EXCEPT !.pc = "raised"]

(***************************************************************************)
(* check_container (scripts/ai4infra/utils/container/healthcheck.py)       *)
(***************************************************************************)
ContainerPolls == 120

\* the most containers one name filter matches
MaxMatched == 2

\* ps.stdout.strip().splitlines(): one status per matched container
PsLists ==
    UNION {[1..n -> ContainerStatuses] : n \in 0..MaxMatched}

\* the variant in which no word is ever found in the output
OutputContainsNever(sub, statuses) == FALSE

\* sub in ps.stdout.lower()
OutputContains(sub, statuses) ==
    \E i \in 1..Len(statuses) : Contains(sub, LowerStatus[statuses[i]])

\* the variant in which any listed container counts as up
AnyUpAlways(statuses) == TRUE

\* any("up" in s.lower() for s in statuses)
AnyUp(statuses) == OutputContains("up", statuses)

\* the calls the CLI makes: check_postgres for postgres, check_vault for
\* vault, no custom check otherwise
CheckCalls ==
    ({"postgres", "vault", "bitwarden", "nginx"} \X {"none"})
        \cup {<<"postgres", "check_postgres">>, <<"vault", "check_vault">>}

NoCtCheck ==
    [pc |-> "idle", service |-> "nginx", custom |-> "none", attempt |-> 0,
     statuses |-> <<>>, ret |-> FALSE]

\* entry of check_container(service, custom_check); nothing is left of the
\* calls made before
CheckContainerBegin(service, custom) ==
    /\ ctCheck.pc \in {"idle", "done", "raised"}
    /\ ctCheck' = [NoCtCheck EXCEPT !.pc = "poll", !.service = service,
                                    !.custom = custom]
    /\ pgCheck' = NoPgCheck
    /\ vaultCheck' = NoVaultCheck

\* one iteration of for attempt in range(120); the else clause of the loop
\* returns False
CheckContainerPoll ==
    /\ ctCheck.pc = "poll"
    /\ \E statuses \in PsLists :
         LET polled == [ctCheck EXCEPT !.statuses = statuses]
             retry ==
                 IF ctCheck.attempt + 1 = ContainerPolls
                 THEN [polled EXCEPT !.attempt = @ + 1, !.pc = "done",
                                     !.ret = FALSE]
                 ELSE [polled EXCEPT !.attempt = @ + 1]
             break == [polled EXCEPT !.pc = "logs"]
         IN  ctCheck' =
                IF statuses = <<>> THEN retry
                ELSE IF ctCheck.service = "bitwarden"
                THEN IF OutputContains("unhealthy", statuses)
                     THEN [polled EXCEPT !.pc = "done", !.ret = FALSE]
                     ELSE IF OutputContains("starting", statuses)
                     THEN retry
                     ELSE break
                ELSE IF AnyUp(statuses) THEN break
                ELSE retry

\* docker logs is scanned for error/failed (only logged); with no
\* custom_check the function returns True, else it calls custom_check;
\* the variables of the loop are not used again
CheckContainerLogs ==
    /\ ctCheck.pc = "logs"
    /\ LET after == [ctCheck EXCEPT !.attempt = 0, !.statuses = <<>>] IN
       IF ctCheck.custom = "none"
       THEN /\ ctCheck' = [after EXCEPT !.pc = "done", !.ret = TRUE]
            /\ UNCHANGED <<pgCheck, vaultCheck>>
       ELSE /\ ctCheck' = [after EXCEPT !.pc = "custom"]
            /\ IF ctCheck.custom = "check_postgres"
               THEN CheckPostgresBegin /\ UNCHANGED vaultCheck
               ELSE CheckVaultBegin /\ UNCHANGED pgCheck

\* return custom_check(service): its result, or its exception
CheckContainerReturn ==
    /\ ctCheck.pc = "custom"
    /\ LET c == IF ctCheck.custom = "check_postgres" THEN pgCheck
                ELSE vaultCheck
       IN  /\ c.pc \in {"done", "raised"}
           /\ ctCheck' = IF c.pc = "done"
                         THEN [ctCheck EXCEPT !.pc = "done", !.ret = c.ret]
                         ELSE [ctCheck EXCEPT !.pc = "raised"]
    /\ UNCHANGED <<pgCheck, vaultCheck>>

(***************************************************************************)
(* The standalone auto-unseal script (scripts/ai4infra/auto_unseal.py)     *)
(***************************************************************************)
MAX_RETRIES == 5

\* the most key files on the USB path
MaxKeys == 2

\* the answer to GET /v1/sys/health: an HTTP status code, 0 when the
\* request raised (no connection)
NoResponse == 0
HealthCodes == {NoResponse, 200, 429, 501, 503}

\* check_vault_status()
check_vault_status(code) ==
    IF code = NoResponse THEN "DOWN"
    ELSE IF code = 200 THEN "ACTIVE"
    ELSE IF code = 503 THEN "SEALED"
    ELSE IF code = 501 THEN "NOT_INIT"
    ELSE "UNKNOWN (" \o ToString(code) \o ")"

NoExit == 0 - 1

\* the variant that goes on to the keys when Vault is active
ExitAfterProbesNeverActive(status) ==
    IF status = "DOWN" THEN 1
    ELSE IF status = "NOT_INIT" THEN 1
    ELSE NoExit

\* main() after the connection loop: sys.exit(1) when DOWN, sys.exit(0)
\* when ACTIVE, sys.exit(1) when NOT_INIT, else the script goes on
ExitAfterProbes(status) ==
    IF status = "DOWN" THEN 1
    ELSE IF status = "ACTIVE" THEN 0
    ELSE IF status = "NOT_INIT" THEN 1
    ELSE NoExit

NoUnseal ==
    [pc |-> "idle", i |-> 0, status |-> "", nKeys |-> 0, k |-> 0,
     submitted |-> 0, unsealed |-> FALSE, exit |-> NoExit]

\* the script is started
UnsealStart ==
    /\ unseal.pc \in {"idle", "exited"}
    /\ unseal' = [NoUnseal EXCEPT !.pc = "probe"]

\* one iteration of for i in range(MAX_RETRIES): break unless DOWN; after
\* the loop the exits that depend on the status
UnsealProbe ==
    /\ unseal.pc = "probe"
    /\ \E code \in HealthCodes :
         LET status == check_vault_status(code)
             probed == [unseal EXCEPT !.status = status, !.i = @ + 1]
         IN  unseal' =
                IF status = "DOWN" /\ unseal.i + 1 < MAX_RETRIES THEN probed
                ELSE IF ExitAfterProbes(status) # NoExit
                THEN [probed EXCEPT !.pc = "exited",
                                    !.exit = ExitAfterProbes(status)]
                ELSE [probed EXCEPT !.pc = "find"]

\* find_key_files(): nothing when the USB path does not exist, else the
\* *.key files; sys.exit(0) when there is none
UnsealFindKeys ==
    /\ unseal.pc = "find"
    /\ \E mounted \in BOOLEAN, n \in 0..MaxKeys :
         LET keys == IF mounted THEN n ELSE 0 IN
         unseal' = IF keys = 0
                   THEN [unseal EXCEPT !.pc = "exited", !.exit = 0]
                   ELSE [unseal EXCEPT !.pc = "unseal", !.nKeys = keys,
                                       !.k = 1]

\* unseal_vault: one iteration of for key_file in keys: the file cannot be
\* read, or the key is posted and rejected, accepted with Vault still
\* sealed, or accepted with Vault unsealed; main falls off its end after
\* unseal_vault returned
UnsealSubmit ==
    /\ unseal.pc = "unseal"
    /\ \E outcome \in {"unreadable", "rejected", "progress", "unsealed"} :
         LET posted == [unseal EXCEPT
                          !.submitted = IF outcome = "unreadable" THEN @
                                        ELSE @ + 1]
         IN  unseal' =
                IF outcome = "unsealed"
                THEN [posted EXCEPT !.unsealed = TRUE, !.pc = "exited",
                                    !.exit = 0]
                ELSE IF unseal.k = unseal.nKeys
                THEN [posted EXCEPT !.pc = "exited", !.exit = 0]
                ELSE [posted EXCEPT !.k = @ + 1]

(***************************************************************************)
(* extract_env_vars (scripts/ai4infra/utils/container/env_manager.py)      *)
(***************************************************************************)
\* the most lines of the .env file
MaxLines == 3

\* s.startswith(prefix)
StartsWith(s, prefix) ==
    /\ Len(s) >= Len(prefix)
    /\ SubSeq(s, 1, Len(prefix)) = prefix

\* str.upper() of a one-character string
UpperChar(c) ==
    IF \E i \in 1..Len(LowerCase) : SubSeq(LowerCase, i, i) = c
    THEN LET i == CHOOSE j \in 1..Len(LowerCase) : SubSeq(LowerCase, j, j) = c
         IN  SubSeq(UpperCase, i, i)
    ELSE c

RECURSIVE Upper(_)
\* s.upper()
Upper(s) ==
    IF Len(s) = 0 THEN s
    ELSE UpperChar(SubSeq(s, 1, 1)) \o Upper(SubSeq(s, 2, Len(s)))

RECURSIVE Strip(_)
\* s.strip(): the blanks at both ends removed
Strip(s) ==
    IF Len(s) = 0 THEN s
    ELSE IF SubSeq(s, 1, 1) = " " THEN Strip(SubSeq(s, 2, Len(s)))
    ELSE IF SubSeq(s, Len(s), Len(s)) = " "
    THEN Strip(SubSeq(s, 1, Len(s) - 1))
    ELSE s

\* "=" in line
HasEquals(line) == Contains("=", line)

\* line.split("=", 1): the parts before and after the first "="
SplitEquals(line) ==
    LET i == CHOOSE j \in 1..Len(line) :
                /\ SubSeq(line, j, j) = "="
                /\ \A h \in 1..(j - 1) : SubSeq(line, h, h) # "="
    IN  [k |-> SubSeq(line, 1, i - 1), v |-> SubSeq(line, i + 1, Len(line))]

\* env_vars[key] = value
DictSet(d, key, value) ==
    [x \in DOMAIN d \cup {key} |-> IF x = key THEN value ELSE d[x]]

\* line.startswith(section_prefix)
IsSectionLine(line, section_prefix) == StartsWith(line, section_prefix)

RECURSIVE ScanLines(_, _, _, _)
\* for line in f: a blank line ends the section, a comment line begins or
\* ends it, any other line with "=" is recorded inside the section
ScanLines(lines, section_prefix, env_vars, in_section) ==
    IF lines = <<>> THEN env_vars
    ELSE LET line == Strip(Head(lines))
             rest == Tail(lines)
         IN  IF line = ""
             THEN ScanLines(rest, section_prefix, env_vars, FALSE)
             ELSE IF StartsWith(line, "#")
             THEN ScanLines(rest, section_prefix, env_vars,
                            IsSectionLine(line, section_prefix))
             ELSE IF in_section /\ HasEquals(line)
             THEN LET kv == SplitEquals(line) IN
                  ScanLines(rest, section_prefix,
                            DictSet(env_vars, Strip(kv.k), Strip(kv.v)),
                            in_section)
             ELSE ScanLines(rest, section_prefix, env_vars, in_section)

\* extract_env_vars(env_path, section) on a file of the given lines
extract_env_vars(lines, section) ==
    ScanLines(lines, "# " \o Upper(section), EmptyDict, FALSE)

\* the lines a .env file is made of
EnvFileLines ==
    {"", "# ORTHANC", "# ORTHANC-MOCK", "# ORTHANC compose_vars", "# note",
     "A=1", "A=2", "B = x=y", "export"}

\* the section names asked for
SectionNames == {"orthanc", "orthanc-mock"}

\* the .env files of at most MaxLines lines
EnvFileContents == UNION {[1..n -> EnvFileLines] : n \in 0..MaxLines}

NoExtract ==
    [lines |-> <<>>, section |-> "orthanc", called |-> FALSE,
     result |-> EmptyDict]

\* the call of extract_env_vars on the file and the section
ExtractEnvVars ==
    /\ ~extract.called
    /\ extract' = [extract EXCEPT
                      !.called = TRUE,
                      !.result = extract_env_vars(extract.lines,
                                                  extract.section)]

(***************************************************************************)
(* init_vault (ai4infra-cli.py)                                            *)
(***************************************************************************)
\* the most runs of init_vault in one behaviour
MaxInitRuns == 4

\* what vault operator init can end with: on a Vault that is not
\* initialized exit status 0 with the keys on stdout, on an initialized
\* one the error that says so; at any time another error, with or without
\* a message
InitOutcomes(initialized) ==
    (IF initialized
     THEN {[rc |-> 2,
            stderr |-> "Error initializing: * Vault is already initialized"]}
     ELSE {[rc |-> 0, stderr |-> ""]})
    \cup {[rc |-> 1, stderr |-> "Error response from daemon: not running"],
          [rc |-> 1, stderr |-> ""]}

\* the variant that writes the key file whatever the exit status
KeyFileWrittenAlways(rc) == TRUE

\* subprocess.run(init_cmd, check=True): the lines that write
\* mock_usb/vault_keys.json run only when the exit status is 0
KeyFileWritten(rc) == rc = 0

\* except CalledProcessError: log_info when stderr says that Vault is
\* already initialized, else log_error
InitFailureLevel(stderr) ==
    IF stderr # "" /\ Contains("Vault is already initialized", stderr)
    THEN "info" ELSE "error"

\* Vault not initialized, no key file, init_vault never run
NoVaultInit ==
    [initialized |-> FALSE, keyFile |-> NoFile, keys |-> 0, runs |-> 0,
     rc |-> NoExit, stderr |-> "", level |-> "none", ended |-> "none"]

\* the whole command: docker ps must list ai4infra-vault, else log_error
\* and return; vault operator init; on success the JSON is written to
\* mock_usb/vault_keys.json (open or write may raise, which nothing
\* catches); on a CalledProcessError the log
init_vault ==
    /\ vaultInit.runs < MaxInitRuns
    /\ \E listed \in BOOLEAN, writeOk \in BOOLEAN,
          o \in InitOutcomes(vaultInit.initialized) :
         LET run == [vaultInit EXCEPT !.runs = @ + 1, !.rc = NoExit,
                                      !.stderr = "", !.level = "none",
                                      !.ended = "returned"]
             ran == [run EXCEPT !.rc = o.rc, !.stderr = o.stderr,
                                !.initialized = @ \/ (o.rc = 0),
                                !.keys = IF o.rc = 0 THEN @ + 1 ELSE @]
         IN  vaultInit' =
                IF ~listed THEN [run EXCEPT !.level = "error"]
                ELSE IF KeyFileWritten(o.rc)
                THEN IF writeOk
                     THEN [ran EXCEPT !.keyFile = vaultInit.keys + 1]
                     ELSE [ran EXCEPT !.ended = "raised"]
                ELSE [ran EXCEPT !.level = InitFailureLevel(o.stderr)]

\* install --reset vault: the service directory with Vault's storage is
\* removed, the key file is not
ResetVault ==
    /\ vaultInit.initialized
    /\ vaultInit' = [vaultInit EXCEPT !.initialized = FALSE]

(***************************************************************************)
(* setup_cron (ai4infra-cli.py)                                            *)
(* A text is the sequence of its lines' contents and its newline           *)
(* characters: "a\n\nb\n" is <<"a", NL, NL, "b", NL>>.                        *)
(***************************************************************************)
\* the most lines of the crontab at the start
MaxCronLines == 2

\* the most runs of setup_cron in one behaviour
MaxCronRuns == 3

\* the newline character
NL == "\n"

\* str.splitlines()
RECURSIVE SplitLines(_)
SplitLines(text) ==
    IF text = <<>> THEN <<>>
    ELSE IF text[1] = NL THEN <<"">> \o SplitLines(Tail(text))
    ELSE IF Len(text) >= 2 /\ text[2] = NL
    THEN <<text[1]>> \o SplitLines(SubSeq(text, 3, Len(text)))
    ELSE <<text[1]>> \o SplitLines(Tail(text))

\* "\n".join(lines)
RECURSIVE JoinLines(_)
JoinLines(lines) ==
    IF lines = <<>> THEN <<>>
    ELSE (IF lines[1] = "" THEN <<>> ELSE <<lines[1]>>)
            \o (IF Len(lines) = 1 THEN <<>>
                ELSE <<NL>> \o JoinLines(Tail(lines)))

\* f"{schedule} {cmd} # AI4INFRA-BACKUP:{svc}", python_path and cli_path
\* being those of the installation
CronLine(svc, schedule) ==
    schedule \o " /venv/bin/python /opt/ai4infra/ai4infra-cli.py backup "
        \o svc \o " >> /var/log/ai4infra/cron_backup.log 2>&1"
        \o " # AI4INFRA-BACKUP:" \o svc

\* "# AI4INFRA-BACKUP" in line
IsTagged(line) == Contains("# AI4INFRA-BACKUP", line)

\* "# AI4INFRA-BACKUP" not in line: the line goes to new_cron
KeepsLine(line) == ~IsTagged(line)

\* the loop over discover_services(): a line for every service whose
\* config has a backup.schedule
RECURSIVE CronLines(_, _)
CronLines(services, schedules) ==
    IF services = <<>> THEN <<>>
    ELSE (IF schedules[Head(services)] # ""
          THEN <<CronLine(Head(services), schedules[Head(services)])>>
          ELSE <<>>)
            \o CronLines(Tail(services), schedules)

\* final_cron_content: the lines of the current crontab that are kept, the
\* new lines, an empty line unless the last line is empty, joined with
\* newlines, and a newline
FinalCronContent(current_cron, cron_lines) ==
    LET kept == SelectSeq(SplitLines(current_cron), KeepsLine)
        new_cron == kept \o cron_lines
        padded == IF new_cron # <<>> /\ new_cron[Len(new_cron)] # ""
                  THEN Append(new_cron, "") ELSE new_cron
    IN  JoinLines(padded) \o <<NL>>

\* the lines a crontab holds before setup_cron has run: lines of the user,
\* empty lines, and a line an earlier installation has left
CrontabLines ==
    {"", "MAILTO=root", "0 5 * * * /usr/bin/true",
     CronLine("postgres", "0 1 * * *")}

\* the crontabs at the start: no crontab, or lines that each end with a
\* newline
Crontabs ==
    {IF lines = <<>> THEN <<>> ELSE JoinLines(lines) \o <<NL>> :
        lines \in UNION {[1..n -> CrontabLines] : n \in 0..MaxCronLines}}

\* backup.schedule of a config, "" when the config has none
Schedules == {"", "0 2 * * *"}

\* no crontab, no schedule, setup_cron never run
NoCron ==
    [text |-> <<>>, schedules |-> [s \in Services |-> ""],
     services |-> <<>>, runs |-> 0, registered |-> FALSE]

\* the whole command: collect the lines and return when there is none;
\* crontab -l (its output is empty when there is no crontab); build the
\* new content; crontab -, whose failure is logged
setup_cron ==
    /\ cron.runs < MaxCronRuns
    /\ \E writeOk \in BOOLEAN :
         LET cron_lines == CronLines(cron.services, cron.schedules)
             run == [cron EXCEPT !.runs = @ + 1, !.registered = FALSE]
         IN  cron' =
                IF cron_lines = <<>> THEN run
                ELSE IF writeOk
                THEN [run EXCEPT
                        !.text = FinalCronContent(cron.text, cron_lines),
                        !.registered = TRUE]
                ELSE run

\* no health check and no init_vault has run
ChecksIdle ==
    /\ vaultInit = NoVaultInit
    /\ pgCheck = NoPgCheck
    /\ vaultCheck = NoVaultCheck
    /\ ctCheck = NoCtCheck
    /\ unseal = NoUnseal

\* and no file has been read
ToolsIdle ==
    /\ ChecksIdle
    /\ extract = NoExtract
    /\ cron = NoCron

\* everything but the health checks
notTools == <<certVars, envVars, discVars, dockerVars, backupVars, cliVars>>

CheckPostgresNext ==
    \/ CheckPostgresBegin /\ UNCHANGED <<notTools, vaultCheck, ctCheck, unseal, extract>>
    \/ CheckPostgresPoll /\ UNCHANGED <<notTools, vaultCheck, ctCheck, unseal, extract>>
    \/ CheckPostgresSql /\ UNCHANGED <<notTools, vaultCheck, ctCheck, unseal, extract>>

CheckVaultNext ==
    \/ CheckVaultBegin /\ UNCHANGED <<notTools, pgCheck, ctCheck, unseal, extract>>
    \/ CheckVaultPoll /\ UNCHANGED <<notTools, pgCheck, ctCheck, unseal, extract>>
    \/ CheckVaultParse /\ UNCHANGED <<notTools, pgCheck, ctCheck, unseal, extract>>

\* extract_env_vars applied to the file and the section
ExtractNext ==
    ExtractEnvVars
        /\ UNCHANGED <<notTools, pgCheck, vaultCheck, ctCheck, unseal>>

\* the auto-unseal script, run again and again
AutoUnsealNext ==
    \/ UnsealStart /\ UNCHANGED <<notTools, pgCheck, vaultCheck, ctCheck, extract>>
    \/ UnsealProbe /\ UNCHANGED <<notTools, pgCheck, vaultCheck, ctCheck, extract>>
    \/ UnsealFindKeys /\ UNCHANGED <<notTools, pgCheck, vaultCheck, ctCheck, extract>>
    \/ UnsealSubmit /\ UNCHANGED <<notTools, pgCheck, vaultCheck, ctCheck, extract>>

\* check_container and the custom check it calls
CheckContainerNext ==
    \/ \E c \in CheckCalls :
         CheckContainerBegin(c[1], c[2]) /\ UNCHANGED <<notTools, unseal, extract>>
    \/ CheckContainerPoll
         /\ UNCHANGED <<notTools, pgCheck, vaultCheck, unseal, extract>>
    \/ CheckContainerLogs /\ UNCHANGED <<notTools, unseal, extract>>
    \/ CheckContainerReturn /\ UNCHANGED <<notTools, unseal, extract>>
    \/ CheckPostgresPoll /\ UNCHANGED <<notTools, vaultCheck, ctCheck, unseal, extract>>
    \/ CheckPostgresSql /\ UNCHANGED <<notTools, vaultCheck, ctCheck, unseal, extract>>
    \/ CheckVaultPoll /\ UNCHANGED <<notTools, pgCheck, ctCheck, unseal, extract>>
    \/ CheckVaultParse /\ UNCHANGED <<notTools, pgCheck, ctCheck, unseal, extract>>

(***************************************************************************)
(* Specifications                                                          *)
(***************************************************************************)
Init ==
    /\ CertInit /\ EnvInit /\ DiscInit /\ DockerInitInstalled /\ BackupInit
    /\ ToolsIdle

\* init_vault run again and again, Vault reset in between or not
InitVaultNext ==
    \/ init_vault /\ UNCHANGED <<notCli, cron>>
    \/ ResetVault /\ UNCHANGED <<notCli, cron>>

\* setup_cron run again and again
SetupCronNext == setup_cron /\ UNCHANGED <<notCli, vaultInit>>

Next ==
    \/ CertNext \/ EnvNext \/ DiscNext \/ BackupNext \/ InstallNext
    \/ SetBackupPassword /\ UNCHANGED notBackup
    \/ CheckPostgresNext \/ CheckVaultNext \/ CheckContainerNext
    \/ AutoUnsealNext \/ ExtractNext
    \/ InitVaultNext \/ SetupCronNext

Spec == Init /\ [][Next]_vars

\* calls of create_service_certificate on a clean host
InitCert ==
    /\ CertInit
    /\ EnvInitEmpty
    /\ DiscInitEnabled
    /\ DockerInitClean
    /\ BackupInitEmpty
    /\ ToolsIdle

SpecCert == InitCert /\ [][CertNext]_vars

\* a call for a service that no call was made for yet, while the call for
\* the other service may be running
BeginConcurrentCall(p) ==
    \E s \in Services, overwrite \in BOOLEAN :
       /\ lastResult[s] = "none"
       /\ \A q \in Procs : call[q].pc # "idle" => call[q].svc # s
       /\ StartCall(p, s, overwrite)

\* one call per service, the steps of the two calls interleaved
ConcurrentCertNext ==
    \/ \E p \in Procs : BeginConcurrentCall(p) /\ UNCHANGED notCert
    \/ \E p \in Procs : CertStep(p) /\ UNCHANGED notCert

SpecConcurrentCert == InitCert /\ [][ConcurrentCertNext]_vars

\* calls of generate_env for services whose directory may or may not exist
InitEnv ==
    /\ CertFilesInit
    /\ svcDir \in [Services -> BOOLEAN]
    /\ EnvInit
    /\ DiscInitEnabled
    /\ DockerInitClean
    /\ BackupInitEmpty
    /\ ToolsIdle

SpecEnv == InitEnv /\ [][EnvNext]_vars

\* discover_services on any content of the config directory
InitDisc ==
    /\ CertInit
    /\ EnvInitEmpty
    /\ DiscInit
    /\ DockerInitClean
    /\ BackupInitEmpty
    /\ ToolsIdle

SpecDisc == InitDisc /\ [][DiscNext]_vars

\* backup and restore commands, one after another, on installed services
InitBackup ==
    /\ CertFilesInit
    /\ svcDir = [s \in Services |-> TRUE]
    /\ EnvInitEmpty
    /\ DiscInitEnabled
    /\ DockerInitInstalled
    /\ BackupInit
    /\ ToolsIdle

SpecBackup == InitBackup /\ [][BackupNext]_vars

\* install commands, one after another, starting on a clean host
InitInstall ==
    /\ CertInit
    /\ EnvInitEmpty
    /\ DiscInitEnabled
    /\ DockerInitAnyTemplate
    /\ BackupInitEmpty
    /\ ToolsIdle

SpecInstall == InitInstall /\ [][InstallNext]_vars

\* install commands for a service whose backup method is copy, while the
\* running service writes its data directory
ReinstallNext ==
    \/ ServiceWrites("bitwarden") /\ UNCHANGED notBackup
    \/ \E reset \in BOOLEAN :
         InstallBegin("bitwarden", reset) /\ UNCHANGED notInstall
    \/ InstallStop /\ UNCHANGED notInstall
    \/ InstallCopyTemplate /\ UNCHANGED notInstall
    \/ InstallCertificate /\ UNCHANGED notInstall
    \/ InstallCertificateStep /\ UNCHANGED notInstall
    \/ InstallEnv /\ UNCHANGED notInstall
    \/ InstallStart /\ UNCHANGED notInstall

\* calls of check_postgres, one after another
InitCheckPostgres ==
    /\ CertInit
    /\ EnvInitEmpty
    /\ DiscInitEnabled
    /\ DockerInitInstalled
    /\ BackupInitEmpty
    /\ ToolsIdle

SpecCheckPostgres == InitCheckPostgres /\ [][CheckPostgresNext]_vars

\* calls of check_container, one after another
InitCheckContainer ==
    /\ CertInit
    /\ EnvInitEmpty
    /\ DiscInitEnabled
    /\ DockerInitInstalled
    /\ BackupInitEmpty
    /\ ToolsIdle

SpecCheckContainer == InitCheckContainer /\ [][CheckContainerNext]_vars

\* extract_env_vars on any file and any section name
InitExtract ==
    /\ CertInit
    /\ EnvInitEmpty
    /\ DiscInitEnabled
    /\ DockerInitInstalled
    /\ BackupInitEmpty
    /\ ChecksIdle
    /\ cron = NoCron
    /\ extract \in [lines : EnvFileContents, section : SectionNames,
                     called : {FALSE}, result : {EmptyDict}]

SpecExtract == InitExtract /\ [][ExtractNext]_vars

\* runs of auto_unseal.py, one after another
InitAutoUnseal ==
    /\ CertInit
    /\ EnvInitEmpty
    /\ DiscInitEnabled
    /\ DockerInitInstalled
    /\ BackupInitEmpty
    /\ ToolsIdle

SpecAutoUnseal == InitAutoUnseal /\ [][AutoUnsealNext]_vars

SpecInitVault == InitAutoUnseal /\ [][InitVaultNext]_vars

\* any crontab, any schedules, the services in either order of the glob
InitSetupCron ==
    /\ CertInit
    /\ EnvInitEmpty
    /\ DiscInitEnabled
    /\ DockerInitInstalled
    /\ BackupInitEmpty
    /\ ChecksIdle
    /\ extract = NoExtract
    /\ cron \in [text : Crontabs, schedules : [Services -> Schedules],
                  services : {<<"postgres", "bitwarden">>,
                              <<"bitwarden", "postgres">>},
                  runs : {0}, registered : {FALSE}]

SpecSetupCron == InitSetupCron /\ [][SetupCronNext]_vars

\* calls of check_vault, one after another
InitCheckVault ==
    /\ CertInit
    /\ EnvInitEmpty
    /\ DiscInitEnabled
    /\ DockerInitInstalled
    /\ BackupInitEmpty
    /\ ToolsIdle

SpecCheckVault == InitCheckVault /\ [][CheckVaultNext]_vars

SpecReinstall == InitInstall /\ [][ReinstallNext]_vars

\* hot backups of one service at a time and restores, the data directories
\* left alone
SelectNext ==
    \/ \E service \in Services :
         BackupBegin(service, FALSE) /\ UNCHANGED notBackup
    \/ BackupService /\ UNCHANGED notBackup
    \/ \E service \in Services, arg \in {"none", "path"} :
         RestoreBegin(service, arg) /\ UNCHANGED notBackup
    \/ RestoreMode /\ UNCHANGED notBackup
    \/ RestoreService /\ UNCHANGED notBackup

SpecSelect == InitBackup /\ [][SelectNext]_vars

\* installed services whose configs declare any backup method
InitAnyMethod ==
    /\ CertFilesInit
    /\ svcDir = [s \in Services |-> TRUE]
    /\ EnvInitEmpty
    /\ DiscInitAnyMethod
    /\ DockerInitInstalled
    /\ BackupInit
    /\ ToolsIdle

SpecAnyMethod == InitAnyMethod /\ [][SelectNext]_vars

\* the same commands, BACKUP_PASSWORD set or removed between them
PassphraseNext ==
    \/ SetBackupPassword /\ UNCHANGED notBackup
    \/ \E service \in Services :
         BackupBegin(service, FALSE) /\ UNCHANGED notBackup
    \/ BackupService /\ UNCHANGED notBackup
    \/ \E service \in Services, arg \in {"none", "path"} :
         RestoreBegin(service, arg) /\ UNCHANGED notBackup
    \/ RestoreMode /\ UNCHANGED notBackup
    \/ RestoreService /\ UNCHANGED notBackup

SpecPassphrase == InitBackup /\ [][PassphraseNext]_vars

\* backup --cold of one service or of all, nothing else
ColdBackupNext ==
    \/ \E service \in Services \cup {"all"} :
         BackupBegin(service, TRUE) /\ UNCHANGED notBackup
    \/ BackupService /\ UNCHANGED notBackup

SpecColdBackup == InitBackup /\ [][ColdBackupNext]_vars

(***************************************************************************)
(* Claims                                                                  *)
(***************************************************************************)
\* no create_service_certificate call is running
NoCallRunning == \A p \in Procs : call[p].pc = "idle"

\* C1: after any sequence of create_service_certificate calls, every service
\* whose most recent call returned True has a private key and a leaf
\* certificate on disk, and the leaf verifies against the root CA on disk.
C1_TrueMeansVerifiedLeaf ==
    NoCallRunning =>
        \A s \in Services :
            lastResult[s] = "True" =>
                /\ svcKey[s] # NoFile
                /\ svcCert[s] # NoCert
                /\ Verifies(svcCert[s], caCert)

\* C2: when install has gone on to generate_env, start_container or the
\* healthcheck of a service, or to the second step of postgres, the
\* create_service_certificate call it made for that service returned True.
C2_CertificateFailureEndsInstallStep ==
    (cmd.name = "install" /\ cmd.pc \in {"in_start", "in_tls", "in_tls_start"})
        => lastResult[cmd.svc] = "True"

\* C3: a create_service_certificate(service, overwrite=False) call made
\* while the service's key and certificate exist rewrites neither file.
C3_NoRewriteWithoutOverwrite ==
    [][\A p \in Procs :
          (/\ call[p].pc # "idle"
           /\ ~call[p].overwrite
           /\ svcKey[call[p].svc] # NoFile
           /\ svcCert[call[p].svc] # NoCert)
          => /\ svcKey'[call[p].svc] = svcKey[call[p].svc]
             /\ svcCert'[call[p].svc] = svcCert[call[p].svc]]_vars

\* a second call without overwrite has reached the skip branch with both
\* files on disk, after an earlier call generated them
C3_Witness ==
    \E p \in Procs :
        /\ call[p].pc = "skip_deploy"
        /\ ~call[p].overwrite
        /\ lastResult[call[p].svc] = "True"
        /\ svcKey[call[p].svc] # NoFile
        /\ svcCert[call[p].svc] # NoCert

\* the value of key k in the highest-priority layer that defines it
HighestLayerValue(L, k) ==
    IF k \in DOMAIN AsDict(L.entry) THEN AsDict(L.entry)[k]
    ELSE IF k \in DOMAIN AsDict(L.env) THEN AsDict(L.env)[k]
    ELSE IF k \in DOMAIN AsDict(L.compose) THEN AsDict(L.compose)[k]
    ELSE L.base[k]

\* the keys defined in any of the four layers
DefinedKeys(L) ==
    (DOMAIN L.base) \cup (DOMAIN AsDict(L.compose)) \cup (DOMAIN AsDict(L.env))
        \cup (DOMAIN AsDict(L.entry))

InjectedKeys == {"DATA_DIR", "CONF_DIR", "CERTS_DIR"}

\* the values the file gives for key k
FileValues(s, k) == {l.value : l \in {m \in envFile[s].lines : m.key = k}}

\* C4 as stated: for every key defined in any layer, the .env written by
\* generate_env holds the value of the highest-priority layer defining it.
C4_EveryKeyHighestLayer ==
    \A s \in Services :
        envFile[s].exists =>
            \A k \in DefinedKeys(envLayers[s]) :
                FileValues(s, k) = {HighestLayerValue(envLayers[s], k)}

\* C4 amended: the same for every key other than the injected DATA_DIR,
\* CONF_DIR and CERTS_DIR; every key defined in any layer is in the file.
C4_LayerPriorityExceptInjected ==
    \A s \in Services :
        envFile[s].exists =>
            \A k \in DefinedKeys(envLayers[s]) :
                /\ FileValues(s, k) # {}
                /\ k \notin InjectedKeys =>
                      FileValues(s, k) = {HighestLayerValue(envLayers[s], k)}

\* a written file for a service whose key A is defined by all four layers
C4_Witness ==
    \E s \in Services :
        /\ envFile[s].exists
        /\ "A" \in DOMAIN envLayers[s].base
        /\ "A" \in DOMAIN AsDict(envLayers[s].compose)
        /\ "A" \in DOMAIN AsDict(envLayers[s].env)
        /\ "A" \in DOMAIN AsDict(envLayers[s].entry)
        /\ FileValues(s, "A") = {"final_val"}

\* C5: the .env written by generate_env holds DATA_DIR, CONF_DIR and
\* CERTS_DIR as BASE_DIR/<service>/data, /config and /certs, whatever the
\* layers define for those keys.
C5_StandardPathsInjected ==
    \A s \in Services :
        envFile[s].exists =>
            /\ FileValues(s, "DATA_DIR") = {BaseDir \o "/" \o s \o "/data"}
            /\ FileValues(s, "CONF_DIR") = {BaseDir \o "/" \o s \o "/config"}
            /\ FileValues(s, "CERTS_DIR") = {BaseDir \o "/" \o s \o "/certs"}

\* a written file for a service whose layers define DATA_DIR themselves
C5_Witness ==
    \E s \in Services :
        /\ envFile[s].exists
        /\ "DATA_DIR" \in DOMAIN AsDict(envLayers[s].entry)
        /\ "DATA_DIR" \in DOMAIN envLayers[s].base

\* the names of the *.yml files whose content has service.enable == true
EnabledStems ==
    {f.stem : f \in {g \in DOMAIN configDir :
                        g.ext = "yml" /\ configDir[g] = EnabledConfig}}

\* the elements of a list
Elements(list) == {list[i] : i \in 1..Len(list)}

\* C6: discover_services returns exactly the stems of the *.yml files with
\* service.enable == true; no other file content is fatal or stops the scan.
C6_ExactlyEnabledNeverFatal ==
    discStatus # "none" =>
        /\ discStatus = "returned"
        /\ Elements(discList) = EnabledStems

\* C7: for a service with backup method copy, when restore_data returns
\* True the data directory holds exactly the files the restored backup file
\* holds, whatever was written to the directory since the backup.
C7_RoundTripIdentical ==
    [][(/\ At("restore", "rs_data")
        /\ BackupMethod(cmd.svc) = "copy"
        /\ cmd'.pc = "done"
        /\ cmd'.ret)
       => dataDir'[cmd.svc].files
              = ArtifactNamed(cmd.svc, FileName(cmd.file)).content.files]_vars

\* the backup file of the service that was written last
LatestCreated(s) ==
    CHOOSE a \in artifacts[s] : \A b \in artifacts[s] : b.order <= a.order

\* C8: a restore command given no backup path restores the backup file of
\* the service that was created last.
C8_SelectsLatestCreated ==
    (cmd.name = "restore" /\ cmd.auto /\ cmd.file # NoTime)
        => cmd.file = LatestCreated(cmd.svc).time

\* restore with no path has chosen among two backups whose names differ in
\* the hour
C8_Witness ==
    /\ cmd.name = "restore"
    /\ cmd.auto
    /\ cmd.file # NoTime
    /\ \E a \in artifacts[cmd.svc] :
         /\ a.order < LatestCreated(cmd.svc).order
         /\ FileName(a.time)[10] # FileName(cmd.file)[10]

\* C9: whenever install runs start_container for postgres and the container
\* is up afterwards, docker-compose.override.yml is absent from the service
\* directory or the private key and the leaf certificate are both present.
C9_NoTlsOverrideWithoutCertificates ==
    [][(/\ cmd.name = "install"
        /\ cmd.svc = "postgres"
        /\ cmd.pc \in {"in_start", "in_tls_start"}
        /\ cmd'.pc # cmd.pc
        /\ running'["postgres"])
       => (overrideFile' =>
              (svcKey'["postgres"] # NoFile /\ svcCert'["postgres"] # NoCert))
      ]_vars

\* the services of the list of the batch command
BatchServices == {cmd.batch[i] : i \in 1..Len(cmd.batch)}

\* C10: when a backup command over a list of services has ended, the loop
\* body has run for every service of the list, whatever the exit statuses
\* of the subprocesses were.
C10_BatchProcessesEveryService ==
    (cmd.name = "backup" /\ cmd.pc \in {"done", "crashed"})
        => BatchServices \subseteq processed

\* C11: install without --reset deletes neither the service directory nor
\* its data and, before the template is copied, has written a backup file
\* holding the existing data; the service directory is deleted only by the
\* step of install --reset that follows stop_container and precedes
\* copy_template.
C11_DefaultModeBacksUpAndKeeps ==
    [][cmd.name = "install" =>
         /\ (At("install", "in_stop") /\ cmd'.pc = "in_copy" /\ ~cmd.reset)
              => LET svc == cmd.batch[cmd.idx] IN
                 /\ svcDir'[svc] = svcDir[svc]
                 /\ dataDir'[svc] = dataDir[svc]
                 /\ dataDir[svc].exists
                      => \E a \in artifacts'[svc] :
                           a.content = DataContent(dataDir[svc].files)
         /\ ~(At("install", "in_stop") /\ cmd.reset)
              => \A s \in Services :
                   /\ svcDir[s] => svcDir'[s]
                   /\ dataDir[s].exists => dataDir'[s].exists]_vars

\* C12: with BACKUP_PASSWORD absent, the step that calls backup_data gets
\* the empty string and the step that calls restore_data gets False, no
\* exception leaves them, and they leave the backup files, /tmp and the
\* data directories as they were.
C12_NoPassphraseNoEffect ==
    [][(/\ ~backupPassword
        /\ At("backup", "bk_loop") \/ At("restore", "rs_data")
        /\ cmd' # cmd)
         => /\ cmd'.ret = FALSE
            /\ cmd'.pc # "crashed"
            /\ artifacts' = artifacts
            /\ nCreated' = nCreated
            /\ tmp' = tmp
            /\ dataDir' = dataDir]_vars

\* restore_data was called without a passphrase on an existing backup file
\* of a service with data
C12_Witness ==
    /\ ~backupPassword
    /\ cmd.name = "restore"
    /\ cmd.pc = "done"
    /\ cmd.file # NoTime
    /\ artifacts[cmd.svc] # {}
    /\ dataDir[cmd.svc].exists

\* C13: for a service with no variable in the .env section, compose_vars,
\* env_vars and entry_vars, generate_env returns the empty string and
\* writes no .env file; and no .env file written is empty.
C13_NoVariablesNoEnvFile ==
    \A s \in Services :
        /\ (DOMAIN MergeLayers(envLayers[s]) = {})
              => /\ ~envFile[s].exists
                 /\ envResult[s] \in {"none", ""}
        /\ envFile[s].exists => envFile[s].lines # {}

\* C14: when a create_service_certificate call returns True, the root CA
\* copy of its service is the global root CA certificate, also when the
\* call skipped the regeneration of the key and the certificate.
C14_TrueMeansRootCADeployed ==
    [][\A p \in Procs :
          (/\ call[p].pc # "idle"
           /\ call'[p].pc = "idle"
           /\ lastResult'[call[p].svc] = "True")
          => /\ caCert' # NoFile
             /\ svcRootCA'[call[p].svc] = caCert']_vars

\* docker ps reports the health h of the container
Reported(h, out) == Contains("(" \o h \o ")", out)

\* C15: check_postgres polls at most 60 times; it goes on to the SQL and
\* TLS checks only from a poll that reports the container healthy; a poll
\* that reports it unhealthy makes it return False with no SQL check run;
\* the 60th poll without a healthy report makes it return False.
C15_SqlOnlyWhenHealthy ==
    [][pgCheck.pc = "poll" =>
         /\ pgCheck'.attempt <= PostgresPolls
         /\ pgCheck'.pc = "sql" => Reported("healthy", pgCheck'.output)
         /\ Reported("unhealthy", pgCheck'.output)
              => /\ pgCheck'.pc = "done"
                 /\ ~pgCheck'.ret
                 /\ ~pgCheck'.sql
         /\ (pgCheck'.attempt = PostgresPolls /\ pgCheck'.pc # "sql")
              => pgCheck'.pc = "done" /\ ~pgCheck'.ret]_vars

\* C17: check_vault polls at most 20 times; it leaves the loop only at an
\* attempt that produced an HTTP status code and a response body, and
\* returns False otherwise; having left the loop it returns, True exactly
\* when the body parses as JSON, whatever the status code.
C17_ResultIsJsonParse ==
    [][/\ vaultCheck.pc = "poll" =>
            /\ vaultCheck'.attempt <= VaultPolls
            /\ vaultCheck'.pc = "parse"
                 => /\ IsDigit(vaultCheck'.stdout)
                    /\ ParseInt(vaultCheck'.stdout) # 0
                    /\ vaultCheck'.response_body # ""
            /\ vaultCheck'.pc = "done" => ~vaultCheck'.ret
       /\ vaultCheck.pc = "parse" =>
            /\ vaultCheck'.pc = "done"
            /\ vaultCheck'.ret
                 = (JsonLoads(vaultCheck.response_body) # "error")]_vars

\* docker ps lists a container whose status contains "Up"
SomeUp(statuses) ==
    \E i \in 1..Len(statuses) : Contains("Up", statuses[i])

\* the custom check that check_container called
CalledCheck ==
    IF ctCheck.custom = "check_postgres" THEN pgCheck ELSE vaultCheck

\* C16 as stated: every poll either leaves the loop or counts one more
\* attempt, of at most 120; the loop is left for the log scan exactly at a
\* poll in which a matched container's status contains "Up"; a return
\* from the loop is False; the result of the custom check is returned.
C16_LeavesLoopWhenUp ==
    [][/\ ctCheck.pc = "poll" =>
            /\ ctCheck'.attempt <= ContainerPolls
            /\ ctCheck'.pc = "poll" => ctCheck'.attempt = ctCheck.attempt + 1
            /\ ctCheck'.pc = "logs" <=> SomeUp(ctCheck'.statuses)
            /\ ctCheck'.pc = "done" => ~ctCheck'.ret
       /\ (ctCheck.pc = "custom" /\ ctCheck'.pc = "done")
            => /\ CalledCheck.pc = "done"
               /\ ctCheck'.ret = CalledCheck.ret]_vars

\* some listed status contains the word
SomeStatusHas(word, statuses) ==
    \E i \in 1..Len(statuses) : Contains(word, statuses[i])

\* the condition on which the loop ends with success: for bitwarden some
\* container is listed and no status contains "unhealthy" or "starting"
\* (as "Restarting" does), for any other service a listed container's
\* status contains "Up"
StatusSuccess(service, statuses) ==
    IF service = "bitwarden"
    THEN /\ statuses # <<>>
         /\ ~SomeStatusHas("unhealthy", statuses)
         /\ ~SomeStatusHas("starting", statuses)
    ELSE SomeUp(statuses)

\* C16, amended: every poll either leaves the loop or counts one more
\* attempt, of at most 120; the loop is left for the log scan exactly at a
\* poll that satisfies the success condition of the service; a return
\* from the loop is False, and for bitwarden it happens at once when a
\* status contains "unhealthy"; the result of the custom check is
\* returned.
C16_LeavesLoopOnSuccess ==
    [][/\ ctCheck.pc = "poll" =>
            /\ ctCheck'.attempt <= ContainerPolls
            /\ ctCheck'.pc = "poll" => ctCheck'.attempt = ctCheck.attempt + 1
            /\ ctCheck'.pc = "logs"
                 <=> StatusSuccess(ctCheck.service, ctCheck'.statuses)
            /\ ctCheck'.pc = "done"
                 => /\ ~ctCheck'.ret
                    /\ \/ ctCheck'.attempt = ContainerPolls
                       \/ /\ ctCheck.service = "bitwarden"
                          /\ SomeStatusHas("unhealthy", ctCheck'.statuses)
       /\ (ctCheck.pc = "custom" /\ ctCheck'.pc = "done")
            => /\ CalledCheck.pc = "done"
               /\ ctCheck'.ret = CalledCheck.ret]_vars

\* check_container("postgres", check_postgres) has returned the True of
\* check_postgres, which ran its SQL checks
C16_Witness ==
    /\ ctCheck.pc = "done"
    /\ ctCheck.custom = "check_postgres"
    /\ ctCheck.ret
    /\ pgCheck.pc = "done"
    /\ pgCheck.sql

\* the place of a core service in CORE_ORDER
CorePlace(s) == CHOOSE i \in 1..Len(CORE_ORDER) : CORE_ORDER[i] = s

\* C18: the list of install all holds every discovered service once, the
\* core services first and in the order of CORE_ORDER, and no service that
\* was not discovered; when the command has ended the loop body has begun
\* for every service of the list.
C18_CoreFirstEveryServiceOnce ==
    (cmd.name = "install" /\ Len(cmd.batch) > 1) =>
        LET list == cmd.batch
            core == ListElements(CORE_ORDER)
        IN  /\ ListElements(list) = EnabledStems
            /\ \A i, j \in 1..Len(list) :
                 i < j =>
                    /\ list[i] # list[j]
                    /\ list[j] \in core => list[i] \in core
                    /\ (list[i] \in core /\ list[j] \in core)
                         => CorePlace(list[i]) < CorePlace(list[j])
            /\ cmd.pc \in {"done", "crashed"}
                 => \A i \in 1..Len(list) : i <= cmd.idx

\* the steps the script can still take
UnsealMeasure(u) ==
    IF u.pc = "probe" THEN (MAX_RETRIES - u.i) + MaxKeys + 2
    ELSE IF u.pc = "find" THEN MaxKeys + 1
    ELSE IF u.pc = "unseal" THEN (u.nKeys - u.k) + 1
    ELSE 0

\* C19: every step of the script brings it nearer to its exit; it probes
\* at most 5 times; it exits with 1 only when the 5th probe still found
\* Vault down or when Vault is not initialized, and with 0 otherwise; it
\* has posted no key when Vault was active or no key file was found.
C19_ExitStatus ==
    [][unseal.pc \in {"probe", "find", "unseal"} =>
         /\ UnsealMeasure(unseal') < UnsealMeasure(unseal)
         /\ unseal'.i <= MAX_RETRIES
         /\ unseal'.pc = "exited" =>
              /\ unseal'.exit \in {0, 1}
              /\ unseal'.exit = 1
                   <=> \/ unseal'.status = "DOWN" /\ unseal'.i = MAX_RETRIES
                       \/ unseal'.status = "NOT_INIT"
              /\ (unseal'.status = "ACTIVE" \/ unseal'.nKeys = 0)
                   => unseal'.submitted = 0]_vars

\* the script has exited with 0 after every key was posted and Vault
\* remained sealed
C19_Witness ==
    /\ unseal.pc = "exited"
    /\ unseal.exit = 0
    /\ unseal.status = "SEALED"
    /\ unseal.nKeys = MaxKeys
    /\ unseal.submitted = MaxKeys
    /\ ~unseal.unsealed

\* the line is the comment header of the section: "# NAME", alone or
\* followed by a blank and more text
IsHeaderOf(line, section) ==
    \/ line = "# " \o Upper(section)
    \/ StartsWith(line, "# " \o Upper(section) \o " ")

\* line i is a key=value line under the header of the section, no blank
\* line and no comment line in between
BelongsTo(lines, i, section) ==
    /\ Strip(lines[i]) # ""
    /\ ~StartsWith(Strip(lines[i]), "#")
    /\ HasEquals(lines[i])
    /\ \E h \in 1..(i - 1) :
         /\ IsHeaderOf(Strip(lines[h]), section)
         /\ \A j \in (h + 1)..(i - 1) :
              /\ Strip(lines[j]) # ""
              /\ ~StartsWith(Strip(lines[j]), "#")

\* the key and the value of a key=value line
KeyOf(line) == Strip(SplitEquals(line).k)
ValueOf(line) == Strip(SplitEquals(line).v)

\* C20: the keys extract_env_vars returns are the keys of the key=value
\* lines that belong to the named section, each with the value of the last
\* such line, and nothing of another section.
C20_ExactlyTheSection ==
    extract.called =>
        LET lines == extract.lines
            own == {i \in 1..Len(lines) :
                       BelongsTo(lines, i, extract.section)}
        IN  /\ DOMAIN extract.result = {KeyOf(lines[i]) : i \in own}
            /\ \A i \in own :
                 (\A j \in own : j > i => KeyOf(lines[j]) # KeyOf(lines[i]))
                    => extract.result[KeyOf(lines[i])] = ValueOf(lines[i])

\* the place of a program position among the six steps of
\* create_service_certificate: root CA, key, CSR, signing, verification,
\* root CA deployment
StepOf(pc) ==
    CASE pc \in {"ca_check", "ca_recheck", "ca_genrsa", "ca_req",
                 "exists_check"} -> 1
      [] pc = "key" -> 2
      [] pc = "csr" -> 3
      [] pc = "sign" -> 4
      [] pc = "verify" -> 5
      [] pc \in {"deploy", "skip_deploy"} -> 6
      [] OTHER -> 0

\* C21: create_service_certificate runs root CA, key, CSR, signing,
\* verification and root CA deployment in this order, each at most once and
\* only after the earlier ones succeeded; a failed step ends the call with
\* False, so True is returned only by a root CA deployment that succeeded.
C21_StepsInOrderFailFast ==
    [][\A p \in Procs :
          (call[p].pc # "idle" /\ call'[p] # call[p])
          => \/ /\ call'[p].pc = "idle"
                /\ lastResult'[call[p].svc] = "False"
             \/ /\ call'[p].pc = "idle"
                /\ lastResult'[call[p].svc] = "True"
                /\ StepOf(call[p].pc) = 6
                /\ caCert # NoFile
                /\ svcRootCA'[call[p].svc] = caCert
             \/ /\ call'[p].pc # "idle"
                /\ \/ StepOf(call'[p].pc) = StepOf(call[p].pc) + 1
                   \/ StepOf(call'[p].pc) = 1 /\ StepOf(call[p].pc) = 1
                   \/ call[p].pc = "exists_check"
                      /\ call'[p].pc = "skip_deploy"]_vars

\* C22: for bitwarden the polling loop of check_container is left for
\* success only at a poll that lists a container and no status with
\* "starting" or "unhealthy", and True is returned only after such a poll;
\* a poll with an "unhealthy" status returns False at once; a poll with a
\* "starting" status (and none unhealthy) only counts one more attempt,
\* which ends the loop with False when it was the last of the 120.
C22_BitwardenSucceedsOnlyWhenHealthy ==
    [][ctCheck.service = "bitwarden" =>
         /\ (ctCheck.pc = "poll" /\ ctCheck' # ctCheck) =>
              LET st == ctCheck'.statuses
                  unhealthy == SomeStatusHas("unhealthy", st)
                  starting == SomeStatusHas("starting", st)
              IN  /\ ctCheck'.pc = "logs"
                       => st # <<>> /\ ~unhealthy /\ ~starting
                  /\ unhealthy
                       => /\ ctCheck'.pc = "done"
                          /\ ~ctCheck'.ret
                          /\ ctCheck'.attempt = ctCheck.attempt
                  /\ (starting /\ ~unhealthy)
                       => /\ ctCheck'.attempt = ctCheck.attempt + 1
                          /\ IF ctCheck'.attempt < ContainerPolls
                             THEN ctCheck'.pc = "poll"
                             ELSE ctCheck'.pc = "done" /\ ~ctCheck'.ret
         /\ (ctCheck.pc # "done" /\ ctCheck'.pc = "done" /\ ctCheck'.ret)
              => ctCheck.pc = "logs"]_vars

\* check_container("bitwarden") has returned True
C22_Witness ==
    /\ ctCheck.service = "bitwarden"
    /\ ctCheck.pc = "done"
    /\ ctCheck.ret

\* C27: the auto-unseal script posts an unseal key to Vault only when the
\* health probe classified Vault as SEALED (HTTP 503); for any other probe
\* result no key reaches Vault.
C27_KeysOnlyWhenSealed ==
    unseal.submitted > 0 => unseal.status = "SEALED"

\* call a is made before call b
CalledBefore(a, b, calls) ==
    \E i, j \in 1..Len(calls) : i < j /\ calls[i] = a /\ calls[j] = b

C28_StoppedContainerIsRestarted ==
    (/\ cmd.name = "restore"
     /\ cmd.pc = "done"
     /\ Called("stop_container", cmd.calls)
     /\ ~running[cmd.svc])
        => CalledBefore("stop_container", "start_container", cmd.calls)

\* C29: a backup_data run that returns a path writes a file of a new name,
\* so every backup file written before it is still there with its content,
\* also when the two runs start within the same clock second.
C29_NoBackupOverwritesAnEarlierOne ==
    [][At("backup", "bk_loop") =>
         \A s \in Services :
            \A a \in artifacts[s] :
               /\ a \in artifacts'[s]
               /\ \A b \in artifacts'[s] \ artifacts[s] :
                    FileName(b.time) # FileName(a.time)]_vars

\* C30: whenever restore_data, called by the restore command, has written
\* a service's data directory by the copy method (the config declares copy
\* or no method) and returned True, stop_container was called before it
\* and the container was not running while the directory was written,
\* postgres and vault included.
C30_CopyRestoreOnlyWhenStopped ==
    [][(/\ At("restore", "rs_data")
        /\ BackupMethod(cmd.svc) = "copy"
        /\ cmd'.ret)
       => /\ Called("stop_container", cmd.calls)
          /\ ~running[cmd.svc]]_vars

\* C26: when the calls of create_service_certificate for two services, run
\* concurrently on a host without a root CA, have both returned True, the
\* leaf certificate of each service verifies against the root CA
\* certificate on disk.
C26_BothLeavesVerifyAgainstOneRootCA ==
    (/\ \A p \in Procs : call[p].pc = "idle"
     /\ \A s \in Services : lastResult[s] = "True")
        => \A s \in Services : Verifies(svcCert[s], caCert)

\* C25: a run of init_vault changes mock_usb/vault_keys.json only when its
\* vault operator init ended with exit status 0, which happens only on a
\* Vault that was not initialized; a run on an initialized Vault and a run
\* whose init failed leave the key file as it was; the error that says
\* that Vault is already initialized is logged with log_info and the
\* command returns.
C25_KeyFileOnlyAfterSuccessfulInit ==
    [][vaultInit'.runs = vaultInit.runs + 1 =>
         /\ vaultInit'.keyFile # vaultInit.keyFile
              => /\ vaultInit'.rc = 0
                 /\ ~vaultInit.initialized
                 /\ vaultInit'.initialized
         /\ (vaultInit.initialized \/ vaultInit'.rc # 0)
              => vaultInit'.keyFile = vaultInit.keyFile
         /\ (vaultInit.initialized /\ vaultInit'.rc = 2)
              => /\ vaultInit'.level = "info"
                 /\ vaultInit'.ended = "returned"]_vars

\* init_vault run again on the Vault it had initialized: the key file of
\* the first run is there and the conflict was logged with log_info
C25_Witness ==
    /\ vaultInit.runs >= 2
    /\ vaultInit.initialized
    /\ vaultInit.keyFile # NoFile
    /\ vaultInit.rc = 2
    /\ vaultInit.level = "info"

\* the lines of the text that setup_cron does not own
Untagged(text) == SelectSeq(SplitLines(text), LAMBDA l : ~IsTagged(l))

\* the number of lines of the text tagged for the service
TaggedFor(s, text) ==
    LET lines == SplitLines(text) IN
    Cardinality({i \in 1..Len(lines) :
                    Contains("# AI4INFRA-BACKUP:" \o s, lines[i])})

\* the lines a begin the lines b
IsPrefix(a, b) == Len(a) <= Len(b) /\ SubSeq(b, 1, Len(a)) = a

\* C23: setup_cron run again right after a run that wrote the crontab, the
\* configuration unchanged, leaves the crontab textually identical; every
\* run keeps the lines that are not tagged AI4INFRA-BACKUP, unchanged and
\* in order, and its result has exactly one tagged line per service with a
\* backup schedule.
C23_SetupCronIdempotent ==
    [][(cron'.runs = cron.runs + 1 /\ cron'.registered) =>
         /\ cron.registered => cron'.text = cron.text
         /\ IsPrefix(Untagged(cron.text), Untagged(cron'.text))
         /\ \A s \in Services :
              TaggedFor(s, cron'.text)
                 = IF cron.schedules[s] # "" THEN 1 ELSE 0]_vars

============================================================================
